---- MODULE Spec2Model ----
(***************************************************************************)
(* StackLizard's JavaScript driver (src/drivers/javascript.js): the source *)
(* buffer and its line mapping, the two traversals of parseSources that    *)
(* build the indexes, and the worklist of getAsyncStacks.                  *)
(*                                                                         *)
(* An AST is a sequence of nodes in estraverse's visiting order; node n's  *)
(* children are the nodes whose parent is n.  The scope tree is the one    *)
(* eslint-scope builds: the global scope, one scope per function, one per  *)
(* block that is not a function body.                                      *)
(***************************************************************************)
EXTENDS Integers, Sequences, FiniteSets, TLC

\* Bounds of the model.
MaxIgnored == 1
MaxCalls == 2
MaxAppends == 3
MaxReads == 2
MaxSegments == 3
MaxIndex == 1

\* JavaScript's null and undefined where a node is expected; nodes are 1..N.
Null == 0
Undefined == -1

NL == "\n"
\* The separator of a path.
Sep == "/"

\* ---------------------------------------------------------------- AST nodes
Nd(type, parent, line, kids) ==
  [type |-> type, parent |-> parent, line |-> line, name |-> "", raw |-> "",
   kind |-> "", async |-> FALSE, kids |-> kids]
Ident(parent, line, name) ==
  [type |-> "Identifier", parent |-> parent, line |-> line, name |-> name, raw |-> "",
   kind |-> "", async |-> FALSE, kids |-> <<>>]
Lit(parent, line, raw) ==
  [type |-> "Literal", parent |-> parent, line |-> line, name |-> "", raw |-> raw,
   kind |-> "", async |-> FALSE, kids |-> <<>>]
Func(type, parent, line, async, kids) ==
  [type |-> type, parent |-> parent, line |-> line, name |-> "", raw |-> "",
   kind |-> "", async |-> async, kids |-> kids]
\* An ArrayPattern: node.elements, with null for a hole.
ArrayPat(parent, line, elements) ==
  [type |-> "ArrayPattern", parent |-> parent, line |-> line, name |-> "", raw |-> "",
   kind |-> "", async |-> FALSE, kids |-> <<>>, elements |-> elements]
Prop(parent, line, kind, kids) ==
  [type |-> "Property", parent |-> parent, line |-> line, name |-> "", raw |-> "",
   kind |-> kind, async |-> FALSE, kids |-> kids]

\* BEGIN PROGRAM TABLES
\* TwoFunctionsMinimal: scenario A: two files, a calls b
\*   a.js:1  function a() {
\*   a.js:2    b();
\*   a.js:3  }
\*   b.js:1  function b() {
\*   b.js:2    return 0;
\*   b.js:3  }
TwoFunctionsMinimal ==
  [nodes |->
     << Nd("Program", 0, 1, <<>>),
        Func("FunctionDeclaration", 1, 1, FALSE, [id |-> 3]),
        Ident(2, 1, "a"),
        Nd("BlockStatement", 2, 1, <<>>),
        Nd("ExpressionStatement", 4, 2, <<>>),
        Nd("CallExpression", 5, 2, [callee |-> 7]),
        Ident(6, 2, "b"),
        Func("FunctionDeclaration", 1, 4, FALSE, [id |-> 9]),
        Ident(8, 4, "b"),
        Nd("BlockStatement", 8, 4, <<>>),
        Nd("ReturnStatement", 10, 5, <<>>),
        Lit(11, 5, "0") >>,
   scopes |->
     << [upper |-> 0, set |-> ("a" :> 2) @@ ("b" :> 8)],
        [upper |-> 1, set |-> ("arguments" :> Undefined)],
        [upper |-> 1, set |-> ("arguments" :> Undefined)] >>,
   acquire |-> (2 :> 2) @@ (8 :> 3),
   fragments |->
     << [pathToFile |-> "a.js", firstLineInFile |-> 1,
         source |-> <<"function a() {", NL, "  b();", NL, "}">>],
        [pathToFile |-> "b.js", firstLineInFile |-> 1,
         source |-> <<"function b() {", NL, "  return 0;", NL, "}">>] >>]

\* TopFunctions: src/unnamed/part_001 reduced, with recursion
\*   fixture.js:1  function a() {
\*   fixture.js:2    b();
\*   fixture.js:3  }
\*   fixture.js:4  function b() {
\*   fixture.js:5    void(c());
\*   fixture.js:6    a();
\*   fixture.js:7  }
\*   fixture.js:8  function c() {
\*   fixture.js:9    return c() + 1;
\*   fixture.js:10  }
\*   fixture.js:11  async function p() {
\*   fixture.js:12    return c();
\*   fixture.js:13  }
\*   fixture.js:14  async function q() {
\*   fixture.js:15    return await c();
\*   fixture.js:16  }
TopFunctions ==
  [nodes |->
     << Nd("Program", 0, 1, <<>>),
        Func("FunctionDeclaration", 1, 1, FALSE, [id |-> 3]),
        Ident(2, 1, "a"),
        Nd("BlockStatement", 2, 1, <<>>),
        Nd("ExpressionStatement", 4, 2, <<>>),
        Nd("CallExpression", 5, 2, [callee |-> 7]),
        Ident(6, 2, "b"),
        Func("FunctionDeclaration", 1, 4, FALSE, [id |-> 9]),
        Ident(8, 4, "b"),
        Nd("BlockStatement", 8, 4, <<>>),
        Nd("ExpressionStatement", 10, 5, <<>>),
        Nd("UnaryExpression", 11, 5, <<>>),
        Nd("CallExpression", 12, 5, [callee |-> 14]),
        Ident(13, 5, "c"),
        Nd("ExpressionStatement", 10, 6, <<>>),
        Nd("CallExpression", 15, 6, [callee |-> 17]),
        Ident(16, 6, "a"),
        Func("FunctionDeclaration", 1, 8, FALSE, [id |-> 19]),
        Ident(18, 8, "c"),
        Nd("BlockStatement", 18, 8, <<>>),
        Nd("ReturnStatement", 20, 9, <<>>),
        Nd("BinaryExpression", 21, 9, [left |-> 23, right |-> 25]),
        Nd("CallExpression", 22, 9, [callee |-> 24]),
        Ident(23, 9, "c"),
        Lit(22, 9, "1"),
        Func("FunctionDeclaration", 1, 11, TRUE, [id |-> 27]),
        Ident(26, 11, "p"),
        Nd("BlockStatement", 26, 11, <<>>),
        Nd("ReturnStatement", 28, 12, <<>>),
        Nd("CallExpression", 29, 12, [callee |-> 31]),
        Ident(30, 12, "c"),
        Func("FunctionDeclaration", 1, 14, TRUE, [id |-> 33]),
        Ident(32, 14, "q"),
        Nd("BlockStatement", 32, 14, <<>>),
        Nd("ReturnStatement", 34, 15, <<>>),
        Nd("AwaitExpression", 35, 15, <<>>),
        Nd("CallExpression", 36, 15, [callee |-> 38]),
        Ident(37, 15, "c") >>,
   scopes |->
     << [upper |-> 0, set |-> ("a" :> 2) @@ ("b" :> 8) @@ ("c" :> 18) @@ ("p" :> 26) @@ ("q" :> 32)],
        [upper |-> 1, set |-> ("arguments" :> Undefined)],
        [upper |-> 1, set |-> ("arguments" :> Undefined)],
        [upper |-> 1, set |-> ("arguments" :> Undefined)],
        [upper |-> 1, set |-> ("arguments" :> Undefined)],
        [upper |-> 1, set |-> ("arguments" :> Undefined)] >>,
   acquire |-> (2 :> 2) @@ (8 :> 3) @@ (18 :> 4) @@ (26 :> 5) @@ (32 :> 6),
   fragments |->
     << [pathToFile |-> "fixture.js", firstLineInFile |-> 1,
         source |-> <<"function a() {", NL, "  b();", NL, "}", NL, "function b() {", NL, "  void(c());", NL, "  a();", NL, "}", NL, "function c() {", NL, "  return c() + 1;", NL, "}", NL, "async function p() {", NL, "  return c();", NL, "}", NL, "async function q() {", NL, "  return await c();", NL, "}">>] >>]

\* NameCollision: scenario C: the same short name in two sibling scopes
\*   fixture.js:1  function outer1() {
\*   fixture.js:2    function b() {}
\*   fixture.js:3    function a() { b(); }
\*   fixture.js:4  }
\*   fixture.js:5  function outer2() {
\*   fixture.js:6    function b() {}
\*   fixture.js:7    function c() { b(); }
\*   fixture.js:8  }
NameCollision ==
  [nodes |->
     << Nd("Program", 0, 1, <<>>),
        Func("FunctionDeclaration", 1, 1, FALSE, [id |-> 3]),
        Ident(2, 1, "outer1"),
        Nd("BlockStatement", 2, 1, <<>>),
        Func("FunctionDeclaration", 4, 2, FALSE, [id |-> 6]),
        Ident(5, 2, "b"),
        Nd("BlockStatement", 5, 2, <<>>),
        Func("FunctionDeclaration", 4, 3, FALSE, [id |-> 9]),
        Ident(8, 3, "a"),
        Nd("BlockStatement", 8, 3, <<>>),
        Nd("ExpressionStatement", 10, 3, <<>>),
        Nd("CallExpression", 11, 3, [callee |-> 13]),
        Ident(12, 3, "b"),
        Func("FunctionDeclaration", 1, 5, FALSE, [id |-> 15]),
        Ident(14, 5, "outer2"),
        Nd("BlockStatement", 14, 5, <<>>),
        Func("FunctionDeclaration", 16, 6, FALSE, [id |-> 18]),
        Ident(17, 6, "b"),
        Nd("BlockStatement", 17, 6, <<>>),
        Func("FunctionDeclaration", 16, 7, FALSE, [id |-> 21]),
        Ident(20, 7, "c"),
        Nd("BlockStatement", 20, 7, <<>>),
        Nd("ExpressionStatement", 22, 7, <<>>),
        Nd("CallExpression", 23, 7, [callee |-> 25]),
        Ident(24, 7, "b") >>,
   scopes |->
     << [upper |-> 0, set |-> ("outer1" :> 2) @@ ("outer2" :> 14)],
        [upper |-> 1, set |-> ("arguments" :> Undefined) @@ ("b" :> 5) @@ ("a" :> 8)],
        [upper |-> 2, set |-> ("arguments" :> Undefined)],
        [upper |-> 2, set |-> ("arguments" :> Undefined)],
        [upper |-> 1, set |-> ("arguments" :> Undefined) @@ ("b" :> 17) @@ ("c" :> 20)],
        [upper |-> 5, set |-> ("arguments" :> Undefined)],
        [upper |-> 5, set |-> ("arguments" :> Undefined)] >>,
   acquire |-> (2 :> 2) @@ (5 :> 3) @@ (8 :> 4) @@ (14 :> 5) @@ (17 :> 6) @@ (20 :> 7),
   fragments |->
     << [pathToFile |-> "fixture.js", firstLineInFile |-> 1,
         source |-> <<"function outer1() {", NL, "  function b() {}", NL, "  function a() { b(); }", NL, "}", NL, "function outer2() {", NL, "  function b() {}", NL, "  function c() { b(); }", NL, "}">>] >>]

\* NameCollisionBlock: scenario C, with a function inside a block of the first scope
\*   fixture.js:1  function Z() {
\*   fixture.js:2    function W() {
\*   fixture.js:3      function b() {}
\*   fixture.js:4      if (c) {
\*   fixture.js:5        d(function () {});
\*   fixture.js:6      }
\*   fixture.js:7    }
\*   fixture.js:8    if (e) {
\*   fixture.js:9      b();
\*   fixture.js:10    }
\*   fixture.js:11  }
\*   fixture.js:12  function b() {}
NameCollisionBlock ==
  [nodes |->
     << Nd("Program", 0, 1, <<>>),
        Func("FunctionDeclaration", 1, 1, FALSE, [id |-> 3]),
        Ident(2, 1, "Z"),
        Nd("BlockStatement", 2, 1, <<>>),
        Func("FunctionDeclaration", 4, 2, FALSE, [id |-> 6]),
        Ident(5, 2, "W"),
        Nd("BlockStatement", 5, 2, <<>>),
        Func("FunctionDeclaration", 7, 3, FALSE, [id |-> 9]),
        Ident(8, 3, "b"),
        Nd("BlockStatement", 8, 3, <<>>),
        Nd("IfStatement", 7, 4, <<>>),
        Ident(11, 4, "c"),
        Nd("BlockStatement", 11, 4, <<>>),
        Nd("ExpressionStatement", 13, 5, <<>>),
        Nd("CallExpression", 14, 5, [callee |-> 16]),
        Ident(15, 5, "d"),
        Func("FunctionExpression", 15, 5, FALSE, <<>>),
        Nd("BlockStatement", 17, 5, <<>>),
        Nd("IfStatement", 4, 8, <<>>),
        Ident(19, 8, "e"),
        Nd("BlockStatement", 19, 8, <<>>),
        Nd("ExpressionStatement", 21, 9, <<>>),
        Nd("CallExpression", 22, 9, [callee |-> 24]),
        Ident(23, 9, "b"),
        Func("FunctionDeclaration", 1, 12, FALSE, [id |-> 26]),
        Ident(25, 12, "b"),
        Nd("BlockStatement", 25, 12, <<>>) >>,
   scopes |->
     << [upper |-> 0, set |-> ("Z" :> 2) @@ ("b" :> 25)],
        [upper |-> 1, set |-> ("arguments" :> Undefined) @@ ("W" :> 5)],
        [upper |-> 2, set |-> ("arguments" :> Undefined) @@ ("b" :> 8)],
        [upper |-> 3, set |-> ("arguments" :> Undefined)],
        [upper |-> 3, set |-> <<>>],
        [upper |-> 5, set |-> ("arguments" :> Undefined)],
        [upper |-> 2, set |-> <<>>],
        [upper |-> 1, set |-> ("arguments" :> Undefined)] >>,
   acquire |-> (2 :> 2) @@ (5 :> 3) @@ (8 :> 4) @@ (17 :> 6) @@ (25 :> 8),
   fragments |->
     << [pathToFile |-> "fixture.js", firstLineInFile |-> 1,
         source |-> <<"function Z() {", NL, "  function W() {", NL, "    function b() {}", NL, "    if (c) {", NL, "      d(function () {});", NL, "    }", NL, "  }", NL, "  if (e) {", NL, "    b();", NL, "  }", NL, "}", NL, "function b() {}">>] >>]

\* ObjectDefineThisMatch: scenario D, with a free function sharing the name
\*   fixture.js:1  var B = {
\*   fixture.js:2    a: function() { return this.c(); },
\*   fixture.js:3    c: function() { return 0; }
\*   fixture.js:4  };
\*   fixture.js:5  function c() {}
\*   fixture.js:6  function d() { c(); }
ObjectDefineThisMatch ==
  [nodes |->
     << Nd("Program", 0, 1, <<>>),
        Nd("VariableDeclaration", 1, 1, <<>>),
        Nd("VariableDeclarator", 2, 1, [id |-> 4]),
        Ident(3, 1, "B"),
        Nd("ObjectExpression", 3, 1, <<>>),
        Prop(5, 2, "init", [key |-> 7, value |-> 8]),
        Ident(6, 2, "a"),
        Func("FunctionExpression", 6, 2, FALSE, <<>>),
        Nd("BlockStatement", 8, 2, <<>>),
        Nd("ReturnStatement", 9, 2, <<>>),
        Nd("CallExpression", 10, 2, [callee |-> 12]),
        Nd("MemberExpression", 11, 2, [object |-> 13, property |-> 14]),
        Nd("ThisExpression", 12, 2, <<>>),
        Ident(12, 2, "c"),
        Prop(5, 3, "init", [key |-> 16, value |-> 17]),
        Ident(15, 3, "c"),
        Func("FunctionExpression", 15, 3, FALSE, <<>>),
        Nd("BlockStatement", 17, 3, <<>>),
        Nd("ReturnStatement", 18, 3, <<>>),
        Lit(19, 3, "0"),
        Func("FunctionDeclaration", 1, 5, FALSE, [id |-> 22]),
        Ident(21, 5, "c"),
        Nd("BlockStatement", 21, 5, <<>>),
        Func("FunctionDeclaration", 1, 6, FALSE, [id |-> 25]),
        Ident(24, 6, "d"),
        Nd("BlockStatement", 24, 6, <<>>),
        Nd("ExpressionStatement", 26, 6, <<>>),
        Nd("CallExpression", 27, 6, [callee |-> 29]),
        Ident(28, 6, "c") >>,
   scopes |->
     << [upper |-> 0, set |-> ("B" :> 3) @@ ("c" :> 21) @@ ("d" :> 24)],
        [upper |-> 1, set |-> ("arguments" :> Undefined)],
        [upper |-> 1, set |-> ("arguments" :> Undefined)],
        [upper |-> 1, set |-> ("arguments" :> Undefined)],
        [upper |-> 1, set |-> ("arguments" :> Undefined)] >>,
   acquire |-> (8 :> 2) @@ (17 :> 3) @@ (21 :> 4) @@ (24 :> 5),
   fragments |->
     << [pathToFile |-> "fixture.js", firstLineInFile |-> 1,
         source |-> <<"var B = {", NL, "  a: function() { return this.c(); },", NL, "  c: function() { return 0; }", NL, "};", NL, "function c() {}", NL, "function d() { c(); }">>] >>]

\* PrototypeAssign: src/fixtures/prototype-assign/fixture.js reduced
\*   fixture.js:1  function A() {
\*   fixture.js:2    this.x = this.c();
\*   fixture.js:3  }
\*   fixture.js:4  A.prototype.b = function() {
\*   fixture.js:5    void(this.c());
\*   fixture.js:6  };
\*   fixture.js:7  A.prototype.c = function() {
\*   fixture.js:8    return 1;
\*   fixture.js:9  };
\*   fixture.js:10  A.prototype.q = async function() {
\*   fixture.js:11    return await this.c();
\*   fixture.js:12  };
\*   fixture.js:13  var B = new A();
PrototypeAssign ==
  [nodes |->
     << Nd("Program", 0, 1, <<>>),
        Func("FunctionDeclaration", 1, 1, FALSE, [id |-> 3]),
        Ident(2, 1, "A"),
        Nd("BlockStatement", 2, 1, <<>>),
        Nd("ExpressionStatement", 4, 2, <<>>),
        Nd("AssignmentExpression", 5, 2, [left |-> 7, right |-> 10]),
        Nd("MemberExpression", 6, 2, [object |-> 8, property |-> 9]),
        Nd("ThisExpression", 7, 2, <<>>),
        Ident(7, 2, "x"),
        Nd("CallExpression", 6, 2, [callee |-> 11]),
        Nd("MemberExpression", 10, 2, [object |-> 12, property |-> 13]),
        Nd("ThisExpression", 11, 2, <<>>),
        Ident(11, 2, "c"),
        Nd("ExpressionStatement", 1, 4, <<>>),
        Nd("AssignmentExpression", 14, 4, [left |-> 16, right |-> 21]),
        Nd("MemberExpression", 15, 4, [object |-> 17, property |-> 20]),
        Nd("MemberExpression", 16, 4, [object |-> 18, property |-> 19]),
        Ident(17, 4, "A"),
        Ident(17, 4, "prototype"),
        Ident(16, 4, "b"),
        Func("FunctionExpression", 15, 4, FALSE, <<>>),
        Nd("BlockStatement", 21, 4, <<>>),
        Nd("ExpressionStatement", 22, 5, <<>>),
        Nd("UnaryExpression", 23, 5, <<>>),
        Nd("CallExpression", 24, 5, [callee |-> 26]),
        Nd("MemberExpression", 25, 5, [object |-> 27, property |-> 28]),
        Nd("ThisExpression", 26, 5, <<>>),
        Ident(26, 5, "c"),
        Nd("ExpressionStatement", 1, 7, <<>>),
        Nd("AssignmentExpression", 29, 7, [left |-> 31, right |-> 36]),
        Nd("MemberExpression", 30, 7, [object |-> 32, property |-> 35]),
        Nd("MemberExpression", 31, 7, [object |-> 33, property |-> 34]),
        Ident(32, 7, "A"),
        Ident(32, 7, "prototype"),
        Ident(31, 7, "c"),
        Func("FunctionExpression", 30, 7, FALSE, <<>>),
        Nd("BlockStatement", 36, 7, <<>>),
        Nd("ReturnStatement", 37, 8, <<>>),
        Lit(38, 8, "1"),
        Nd("ExpressionStatement", 1, 10, <<>>),
        Nd("AssignmentExpression", 40, 10, [left |-> 42, right |-> 47]),
        Nd("MemberExpression", 41, 10, [object |-> 43, property |-> 46]),
        Nd("MemberExpression", 42, 10, [object |-> 44, property |-> 45]),
        Ident(43, 10, "A"),
        Ident(43, 10, "prototype"),
        Ident(42, 10, "q"),
        Func("FunctionExpression", 41, 10, TRUE, <<>>),
        Nd("BlockStatement", 47, 10, <<>>),
        Nd("ReturnStatement", 48, 11, <<>>),
        Nd("AwaitExpression", 49, 11, <<>>),
        Nd("CallExpression", 50, 11, [callee |-> 52]),
        Nd("MemberExpression", 51, 11, [object |-> 53, property |-> 54]),
        Nd("ThisExpression", 52, 11, <<>>),
        Ident(52, 11, "c"),
        Nd("VariableDeclaration", 1, 13, <<>>),
        Nd("VariableDeclarator", 55, 13, [id |-> 57]),
        Ident(56, 13, "B"),
        Nd("NewExpression", 56, 13, [callee |-> 59]),
        Ident(58, 13, "A") >>,
   scopes |->
     << [upper |-> 0, set |-> ("A" :> 2) @@ ("B" :> 56)],
        [upper |-> 1, set |-> ("arguments" :> Undefined)],
        [upper |-> 1, set |-> ("arguments" :> Undefined)],
        [upper |-> 1, set |-> ("arguments" :> Undefined)],
        [upper |-> 1, set |-> ("arguments" :> Undefined)] >>,
   acquire |-> (2 :> 2) @@ (21 :> 3) @@ (36 :> 4) @@ (47 :> 5),
   fragments |->
     << [pathToFile |-> "fixture.js", firstLineInFile |-> 1,
         source |-> <<"function A() {", NL, "  this.x = this.c();", NL, "}", NL, "A.prototype.b = function() {", NL, "  void(this.c());", NL, "};", NL, "A.prototype.c = function() {", NL, "  return 1;", NL, "};", NL, "A.prototype.q = async function() {", NL, "  return await this.c();", NL, "};", NL, "var B = new A();">>] >>]

\* PrototypeDefine: src/fixtures/prototype-define/fixture.js reduced
\*   fixture.js:1  function A() {
\*   fixture.js:2    this.x = this.c;
\*   fixture.js:3  }
\*   fixture.js:4  A.prototype = {
\*   fixture.js:5    b: function() {
\*   fixture.js:6      void(this.c);
\*   fixture.js:7    },
\*   fixture.js:8    get c() {
\*   fixture.js:9      return this.d() + 1;
\*   fixture.js:10    },
\*   fixture.js:11    d: function() {
\*   fixture.js:12      return 1;
\*   fixture.js:13    }
\*   fixture.js:14  };
\*   fixture.js:15  var B = new A();
PrototypeDefine ==
  [nodes |->
     << Nd("Program", 0, 1, <<>>),
        Func("FunctionDeclaration", 1, 1, FALSE, [id |-> 3]),
        Ident(2, 1, "A"),
        Nd("BlockStatement", 2, 1, <<>>),
        Nd("ExpressionStatement", 4, 2, <<>>),
        Nd("AssignmentExpression", 5, 2, [left |-> 7, right |-> 10]),
        Nd("MemberExpression", 6, 2, [object |-> 8, property |-> 9]),
        Nd("ThisExpression", 7, 2, <<>>),
        Ident(7, 2, "x"),
        Nd("MemberExpression", 6, 2, [object |-> 11, property |-> 12]),
        Nd("ThisExpression", 10, 2, <<>>),
        Ident(10, 2, "c"),
        Nd("ExpressionStatement", 1, 4, <<>>),
        Nd("AssignmentExpression", 13, 4, [left |-> 15, right |-> 18]),
        Nd("MemberExpression", 14, 4, [object |-> 16, property |-> 17]),
        Ident(15, 4, "A"),
        Ident(15, 4, "prototype"),
        Nd("ObjectExpression", 14, 4, <<>>),
        Prop(18, 5, "init", [key |-> 20, value |-> 21]),
        Ident(19, 5, "b"),
        Func("FunctionExpression", 19, 5, FALSE, <<>>),
        Nd("BlockStatement", 21, 5, <<>>),
        Nd("ExpressionStatement", 22, 6, <<>>),
        Nd("UnaryExpression", 23, 6, <<>>),
        Nd("MemberExpression", 24, 6, [object |-> 26, property |-> 27]),
        Nd("ThisExpression", 25, 6, <<>>),
        Ident(25, 6, "c"),
        Prop(18, 8, "get", [key |-> 29, value |-> 30]),
        Ident(28, 8, "c"),
        Func("FunctionExpression", 28, 8, FALSE, <<>>),
        Nd("BlockStatement", 30, 8, <<>>),
        Nd("ReturnStatement", 31, 9, <<>>),
        Nd("BinaryExpression", 32, 9, [left |-> 34, right |-> 38]),
        Nd("CallExpression", 33, 9, [callee |-> 35]),
        Nd("MemberExpression", 34, 9, [object |-> 36, property |-> 37]),
        Nd("ThisExpression", 35, 9, <<>>),
        Ident(35, 9, "d"),
        Lit(33, 9, "1"),
        Prop(18, 11, "init", [key |-> 40, value |-> 41]),
        Ident(39, 11, "d"),
        Func("FunctionExpression", 39, 11, FALSE, <<>>),
        Nd("BlockStatement", 41, 11, <<>>),
        Nd("ReturnStatement", 42, 12, <<>>),
        Lit(43, 12, "1"),
        Nd("VariableDeclaration", 1, 15, <<>>),
        Nd("VariableDeclarator", 45, 15, [id |-> 47]),
        Ident(46, 15, "B"),
        Nd("NewExpression", 46, 15, [callee |-> 49]),
        Ident(48, 15, "A") >>,
   scopes |->
     << [upper |-> 0, set |-> ("A" :> 2) @@ ("B" :> 46)],
        [upper |-> 1, set |-> ("arguments" :> Undefined)],
        [upper |-> 1, set |-> ("arguments" :> Undefined)],
        [upper |-> 1, set |-> ("arguments" :> Undefined)],
        [upper |-> 1, set |-> ("arguments" :> Undefined)] >>,
   acquire |-> (2 :> 2) @@ (21 :> 3) @@ (30 :> 4) @@ (41 :> 5),
   fragments |->
     << [pathToFile |-> "fixture.js", firstLineInFile |-> 1,
         source |-> <<"function A() {", NL, "  this.x = this.c;", NL, "}", NL, "A.prototype = {", NL, "  b: function() {", NL, "    void(this.c);", NL, "  },", NL, "  get c() {", NL, "    return this.d() + 1;", NL, "  },", NL, "  d: function() {", NL, "    return 1;", NL, "  }", NL, "};", NL, "var B = new A();">>] >>]

\* VarConstructor: a constructor that is a function expression bound to a variable
\*   fixture.js:1  var A = function() {
\*   fixture.js:2    this.c();
\*   fixture.js:3  };
\*   fixture.js:4  A.prototype.c = function() {
\*   fixture.js:5    return 1;
\*   fixture.js:6  };
\*   fixture.js:7  var B = new A();
VarConstructor ==
  [nodes |->
     << Nd("Program", 0, 1, <<>>),
        Nd("VariableDeclaration", 1, 1, <<>>),
        Nd("VariableDeclarator", 2, 1, [id |-> 4]),
        Ident(3, 1, "A"),
        Func("FunctionExpression", 3, 1, FALSE, <<>>),
        Nd("BlockStatement", 5, 1, <<>>),
        Nd("ExpressionStatement", 6, 2, <<>>),
        Nd("CallExpression", 7, 2, [callee |-> 9]),
        Nd("MemberExpression", 8, 2, [object |-> 10, property |-> 11]),
        Nd("ThisExpression", 9, 2, <<>>),
        Ident(9, 2, "c"),
        Nd("ExpressionStatement", 1, 4, <<>>),
        Nd("AssignmentExpression", 12, 4, [left |-> 14, right |-> 19]),
        Nd("MemberExpression", 13, 4, [object |-> 15, property |-> 18]),
        Nd("MemberExpression", 14, 4, [object |-> 16, property |-> 17]),
        Ident(15, 4, "A"),
        Ident(15, 4, "prototype"),
        Ident(14, 4, "c"),
        Func("FunctionExpression", 13, 4, FALSE, <<>>),
        Nd("BlockStatement", 19, 4, <<>>),
        Nd("ReturnStatement", 20, 5, <<>>),
        Lit(21, 5, "1"),
        Nd("VariableDeclaration", 1, 7, <<>>),
        Nd("VariableDeclarator", 23, 7, [id |-> 25]),
        Ident(24, 7, "B"),
        Nd("NewExpression", 24, 7, [callee |-> 27]),
        Ident(26, 7, "A") >>,
   scopes |->
     << [upper |-> 0, set |-> ("A" :> 3) @@ ("B" :> 24)],
        [upper |-> 1, set |-> ("arguments" :> Undefined)],
        [upper |-> 1, set |-> ("arguments" :> Undefined)] >>,
   acquire |-> (5 :> 2) @@ (19 :> 3),
   fragments |->
     << [pathToFile |-> "fixture.js", firstLineInFile |-> 1,
         source |-> <<"var A = function() {", NL, "  this.c();", NL, "};", NL, "A.prototype.c = function() {", NL, "  return 1;", NL, "};", NL, "var B = new A();">>] >>]

\* TemplateSplit: a template literal that spans two fragments
\*   a.js:1  x = <backquote>p ${y
\*   b.js:1  }q<backquote>;
\*   b.js:2  function t() {
\*   b.js:3    t();
\*   b.js:4  }
TemplateSplit ==
  [nodes |->
     << Nd("Program", 0, 1, <<>>),
        Nd("ExpressionStatement", 1, 1, <<>>),
        Nd("AssignmentExpression", 2, 1, [left |-> 4, right |-> 5]),
        Ident(3, 1, "x"),
        Nd("TemplateLiteral", 3, 1, <<>>),
        Nd("TemplateElement", 5, 1, <<>>),
        Nd("TemplateElement", 5, 2, <<>>),
        Ident(5, 1, "y"),
        Func("FunctionDeclaration", 1, 3, FALSE, [id |-> 10]),
        Ident(9, 3, "t"),
        Nd("BlockStatement", 9, 3, <<>>),
        Nd("ExpressionStatement", 11, 4, <<>>),
        Nd("CallExpression", 12, 4, [callee |-> 14]),
        Ident(13, 4, "t") >>,
   scopes |->
     << [upper |-> 0, set |-> ("t" :> 9)],
        [upper |-> 1, set |-> ("arguments" :> Undefined)] >>,
   acquire |-> (9 :> 2),
   fragments |->
     << [pathToFile |-> "a.js", firstLineInFile |-> 1,
         source |-> <<"x = <backquote>p ${y">>],
        [pathToFile |-> "b.js", firstLineInFile |-> 1,
         source |-> <<"}q<backquote>;", NL, "function t() {", NL, "  t();", NL, "}">>] >>]

\* AccessorTemplateKey: a getter whose computed key is a template literal
\*   fixture.js:1  var o = {
\*   fixture.js:2    get [<backquote>k<backquote>]() {
\*   fixture.js:3      return f();
\*   fixture.js:4    }
\*   fixture.js:5  };
\*   fixture.js:6  function f() {}
AccessorTemplateKey ==
  [nodes |->
     << Nd("Program", 0, 1, <<>>),
        Nd("VariableDeclaration", 1, 1, <<>>),
        Nd("VariableDeclarator", 2, 1, [id |-> 4]),
        Ident(3, 1, "o"),
        Nd("ObjectExpression", 3, 1, <<>>),
        Prop(5, 2, "get", [key |-> 7, value |-> 9]),
        Nd("TemplateLiteral", 6, 2, <<>>),
        Nd("TemplateElement", 7, 2, <<>>),
        Func("FunctionExpression", 6, 2, FALSE, <<>>),
        Nd("BlockStatement", 9, 2, <<>>),
        Nd("ReturnStatement", 10, 3, <<>>),
        Nd("CallExpression", 11, 3, [callee |-> 13]),
        Ident(12, 3, "f"),
        Func("FunctionDeclaration", 1, 6, FALSE, [id |-> 15]),
        Ident(14, 6, "f"),
        Nd("BlockStatement", 14, 6, <<>>) >>,
   scopes |->
     << [upper |-> 0, set |-> ("o" :> 3) @@ ("f" :> 14)],
        [upper |-> 1, set |-> ("arguments" :> Undefined)],
        [upper |-> 1, set |-> ("arguments" :> Undefined)] >>,
   acquire |-> (9 :> 2) @@ (14 :> 3),
   fragments |->
     << [pathToFile |-> "fixture.js", firstLineInFile |-> 1,
         source |-> <<"var o = {", NL, "  get [<backquote>k<backquote>]() {", NL, "    return f();", NL, "  }", NL, "};", NL, "function f() {}">>] >>]

\* SharedCallee: two files that both call a function of the first
\*   a.js:1  function t() {}
\*   a.js:2  function a() {
\*   a.js:3    t();
\*   a.js:4  }
\*   b.js:1  function b() {
\*   b.js:2    t();
\*   b.js:3  }
SharedCallee ==
  [nodes |->
     << Nd("Program", 0, 1, <<>>),
        Func("FunctionDeclaration", 1, 1, FALSE, [id |-> 3]),
        Ident(2, 1, "t"),
        Nd("BlockStatement", 2, 1, <<>>),
        Func("FunctionDeclaration", 1, 2, FALSE, [id |-> 6]),
        Ident(5, 2, "a"),
        Nd("BlockStatement", 5, 2, <<>>),
        Nd("ExpressionStatement", 7, 3, <<>>),
        Nd("CallExpression", 8, 3, [callee |-> 10]),
        Ident(9, 3, "t"),
        Func("FunctionDeclaration", 1, 5, FALSE, [id |-> 12]),
        Ident(11, 5, "b"),
        Nd("BlockStatement", 11, 5, <<>>),
        Nd("ExpressionStatement", 13, 6, <<>>),
        Nd("CallExpression", 14, 6, [callee |-> 16]),
        Ident(15, 6, "t") >>,
   scopes |->
     << [upper |-> 0, set |-> ("t" :> 2) @@ ("a" :> 5) @@ ("b" :> 11)],
        [upper |-> 1, set |-> ("arguments" :> Undefined)],
        [upper |-> 1, set |-> ("arguments" :> Undefined)],
        [upper |-> 1, set |-> ("arguments" :> Undefined)] >>,
   acquire |-> (2 :> 2) @@ (5 :> 3) @@ (11 :> 4),
   fragments |->
     << [pathToFile |-> "a.js", firstLineInFile |-> 1,
         source |-> <<"function t() {}", NL, "function a() {", NL, "  t();", NL, "}">>],
        [pathToFile |-> "b.js", firstLineInFile |-> 1,
         source |-> <<"function b() {", NL, "  t();", NL, "}">>] >>]

\* SharedCalleeReversed: the files of SharedCallee, the second one first
\*   b.js:1  function b() {
\*   b.js:2    t();
\*   b.js:3  }
\*   a.js:1  function t() {}
\*   a.js:2  function a() {
\*   a.js:3    t();
\*   a.js:4  }
SharedCalleeReversed ==
  [nodes |->
     << Nd("Program", 0, 1, <<>>),
        Func("FunctionDeclaration", 1, 1, FALSE, [id |-> 3]),
        Ident(2, 1, "b"),
        Nd("BlockStatement", 2, 1, <<>>),
        Nd("ExpressionStatement", 4, 2, <<>>),
        Nd("CallExpression", 5, 2, [callee |-> 7]),
        Ident(6, 2, "t"),
        Func("FunctionDeclaration", 1, 4, FALSE, [id |-> 9]),
        Ident(8, 4, "t"),
        Nd("BlockStatement", 8, 4, <<>>),
        Func("FunctionDeclaration", 1, 5, FALSE, [id |-> 12]),
        Ident(11, 5, "a"),
        Nd("BlockStatement", 11, 5, <<>>),
        Nd("ExpressionStatement", 13, 6, <<>>),
        Nd("CallExpression", 14, 6, [callee |-> 16]),
        Ident(15, 6, "t") >>,
   scopes |->
     << [upper |-> 0, set |-> ("b" :> 2) @@ ("t" :> 8) @@ ("a" :> 11)],
        [upper |-> 1, set |-> ("arguments" :> Undefined)],
        [upper |-> 1, set |-> ("arguments" :> Undefined)],
        [upper |-> 1, set |-> ("arguments" :> Undefined)] >>,
   acquire |-> (2 :> 2) @@ (8 :> 3) @@ (11 :> 4),
   fragments |->
     << [pathToFile |-> "b.js", firstLineInFile |-> 1,
         source |-> <<"function b() {", NL, "  t();", NL, "}">>],
        [pathToFile |-> "a.js", firstLineInFile |-> 1,
         source |-> <<"function t() {}", NL, "function a() {", NL, "  t();", NL, "}">>] >>]

\* NestedAwait: an await expression inside the argument of another
\*   fixture.js:1  async function r() {
\*   fixture.js:2    await s(await t());
\*   fixture.js:3    u();
\*   fixture.js:4  }
\*   fixture.js:5  function s() {}
NestedAwait ==
  [nodes |->
     << Nd("Program", 0, 1, <<>>),
        Func("FunctionDeclaration", 1, 1, TRUE, [id |-> 3]),
        Ident(2, 1, "r"),
        Nd("BlockStatement", 2, 1, <<>>),
        Nd("ExpressionStatement", 4, 2, <<>>),
        Nd("AwaitExpression", 5, 2, <<>>),
        Nd("CallExpression", 6, 2, [callee |-> 8]),
        Ident(7, 2, "s"),
        Nd("AwaitExpression", 7, 2, <<>>),
        Nd("CallExpression", 9, 2, [callee |-> 11]),
        Ident(10, 2, "t"),
        Nd("ExpressionStatement", 4, 3, <<>>),
        Nd("CallExpression", 12, 3, [callee |-> 14]),
        Ident(13, 3, "u"),
        Func("FunctionDeclaration", 1, 5, FALSE, [id |-> 16]),
        Ident(15, 5, "s"),
        Nd("BlockStatement", 15, 5, <<>>) >>,
   scopes |->
     << [upper |-> 0, set |-> ("r" :> 2) @@ ("s" :> 15)],
        [upper |-> 1, set |-> ("arguments" :> Undefined)],
        [upper |-> 1, set |-> ("arguments" :> Undefined)] >>,
   acquire |-> (2 :> 2) @@ (15 :> 3),
   fragments |->
     << [pathToFile |-> "fixture.js", firstLineInFile |-> 1,
         source |-> <<"async function r() {", NL, "  await s(await t());", NL, "  u();", NL, "}", NL, "function s() {}">>] >>]

\* PatternHole: an array pattern with a hole
\*   fixture.js:1  var [a, , b] = f();
\*   fixture.js:2  function f() {}
PatternHole ==
  [nodes |->
     << Nd("Program", 0, 1, <<>>),
        Nd("VariableDeclaration", 1, 1, <<>>),
        Nd("VariableDeclarator", 2, 1, [id |-> 4]),
        ArrayPat(3, 1, <<5, Null, 6>>),
        Ident(4, 1, "a"),
        Ident(4, 1, "b"),
        Nd("CallExpression", 3, 1, [callee |-> 8]),
        Ident(7, 1, "f"),
        Func("FunctionDeclaration", 1, 2, FALSE, [id |-> 10]),
        Ident(9, 2, "f"),
        Nd("BlockStatement", 9, 2, <<>>) >>,
   scopes |->
     << [upper |-> 0, set |-> ("a" :> 3) @@ ("b" :> 3) @@ ("f" :> 9)],
        [upper |-> 1, set |-> ("arguments" :> Undefined)] >>,
   acquire |-> (9 :> 2),
   fragments |->
     << [pathToFile |-> "fixture.js", firstLineInFile |-> 1,
         source |-> <<"var [a, , b] = f();", NL, "function f() {}">>] >>]

\* ArgumentsCtor: new of the arguments object
\*   fixture.js:1  function f() {
\*   fixture.js:2    return new arguments();
\*   fixture.js:3  }
\*   fixture.js:4  f();
ArgumentsCtor ==
  [nodes |->
     << Nd("Program", 0, 1, <<>>),
        Func("FunctionDeclaration", 1, 1, FALSE, [id |-> 3]),
        Ident(2, 1, "f"),
        Nd("BlockStatement", 2, 1, <<>>),
        Nd("ReturnStatement", 4, 2, <<>>),
        Nd("NewExpression", 5, 2, [callee |-> 7]),
        Ident(6, 2, "arguments"),
        Nd("ExpressionStatement", 1, 4, <<>>),
        Nd("CallExpression", 8, 4, [callee |-> 10]),
        Ident(9, 4, "f") >>,
   scopes |->
     << [upper |-> 0, set |-> ("f" :> 2)],
        [upper |-> 1, set |-> ("arguments" :> Undefined)] >>,
   acquire |-> (2 :> 2),
   fragments |->
     << [pathToFile |-> "fixture.js", firstLineInFile |-> 1,
         source |-> <<"function f() {", NL, "  return new arguments();", NL, "}", NL, "f();">>] >>]

\* AccessorNamesake: a getter, and a function of its name nested in another function
\*   fixture.js:1  var o = {
\*   fixture.js:2    get k() {
\*   fixture.js:3      return f();
\*   fixture.js:4    }
\*   fixture.js:5  };
\*   fixture.js:6  function outer() {
\*   fixture.js:7    function k() {}
\*   fixture.js:8  }
\*   fixture.js:9  function f() {}
\*   fixture.js:10  function user() {
\*   fixture.js:11    return o.k;
\*   fixture.js:12  }
\*   fixture.js:13  function main() {
\*   fixture.js:14    user();
\*   fixture.js:15    outer();
\*   fixture.js:16  }
AccessorNamesake ==
  [nodes |->
     << Nd("Program", 0, 1, <<>>),
        Nd("VariableDeclaration", 1, 1, <<>>),
        Nd("VariableDeclarator", 2, 1, [id |-> 4]),
        Ident(3, 1, "o"),
        Nd("ObjectExpression", 3, 1, <<>>),
        Prop(5, 2, "get", [key |-> 7, value |-> 8]),
        Ident(6, 2, "k"),
        Func("FunctionExpression", 6, 2, FALSE, <<>>),
        Nd("BlockStatement", 8, 2, <<>>),
        Nd("ReturnStatement", 9, 3, <<>>),
        Nd("CallExpression", 10, 3, [callee |-> 12]),
        Ident(11, 3, "f"),
        Func("FunctionDeclaration", 1, 6, FALSE, [id |-> 14]),
        Ident(13, 6, "outer"),
        Nd("BlockStatement", 13, 6, <<>>),
        Func("FunctionDeclaration", 15, 7, FALSE, [id |-> 17]),
        Ident(16, 7, "k"),
        Nd("BlockStatement", 16, 7, <<>>),
        Func("FunctionDeclaration", 1, 9, FALSE, [id |-> 20]),
        Ident(19, 9, "f"),
        Nd("BlockStatement", 19, 9, <<>>),
        Func("FunctionDeclaration", 1, 10, FALSE, [id |-> 23]),
        Ident(22, 10, "user"),
        Nd("BlockStatement", 22, 10, <<>>),
        Nd("ReturnStatement", 24, 11, <<>>),
        Nd("MemberExpression", 25, 11, [object |-> 27, property |-> 28]),
        Ident(26, 11, "o"),
        Ident(26, 11, "k"),
        Func("FunctionDeclaration", 1, 13, FALSE, [id |-> 30]),
        Ident(29, 13, "main"),
        Nd("BlockStatement", 29, 13, <<>>),
        Nd("ExpressionStatement", 31, 14, <<>>),
        Nd("CallExpression", 32, 14, [callee |-> 34]),
        Ident(33, 14, "user"),
        Nd("ExpressionStatement", 31, 15, <<>>),
        Nd("CallExpression", 35, 15, [callee |-> 37]),
        Ident(36, 15, "outer") >>,
   scopes |->
     << [upper |-> 0, set |-> ("o" :> 3) @@ ("outer" :> 13) @@ ("f" :> 19) @@ ("user" :> 22) @@ ("main" :> 29)],
        [upper |-> 1, set |-> ("arguments" :> Undefined)],
        [upper |-> 1, set |-> ("arguments" :> Undefined) @@ ("k" :> 16)],
        [upper |-> 3, set |-> ("arguments" :> Undefined)],
        [upper |-> 1, set |-> ("arguments" :> Undefined)],
        [upper |-> 1, set |-> ("arguments" :> Undefined)],
        [upper |-> 1, set |-> ("arguments" :> Undefined)] >>,
   acquire |-> (8 :> 2) @@ (13 :> 3) @@ (16 :> 4) @@ (19 :> 5) @@ (22 :> 6) @@ (29 :> 7),
   fragments |->
     << [pathToFile |-> "fixture.js", firstLineInFile |-> 1,
         source |-> <<"var o = {", NL, "  get k() {", NL, "    return f();", NL, "  }", NL, "};", NL, "function outer() {", NL, "  function k() {}", NL, "}", NL, "function f() {}", NL, "function user() {", NL, "  return o.k;", NL, "}", NL, "function main() {", NL, "  user();", NL, "  outer();", NL, "}">>] >>]

\* DeepChain: six functions, each called by the next, and no cycle
\*   fixture.js:1  function a() {}
\*   fixture.js:2  function b() { a(); }
\*   fixture.js:3  function c() { b(); }
\*   fixture.js:4  function d() { c(); }
\*   fixture.js:5  function e() { d(); }
\*   fixture.js:6  function f() { e(); }
\*   fixture.js:7  f();
DeepChain ==
  [nodes |->
     << Nd("Program", 0, 1, <<>>),
        Func("FunctionDeclaration", 1, 1, FALSE, [id |-> 3]),
        Ident(2, 1, "a"),
        Nd("BlockStatement", 2, 1, <<>>),
        Func("FunctionDeclaration", 1, 2, FALSE, [id |-> 6]),
        Ident(5, 2, "b"),
        Nd("BlockStatement", 5, 2, <<>>),
        Nd("ExpressionStatement", 7, 2, <<>>),
        Nd("CallExpression", 8, 2, [callee |-> 10]),
        Ident(9, 2, "a"),
        Func("FunctionDeclaration", 1, 3, FALSE, [id |-> 12]),
        Ident(11, 3, "c"),
        Nd("BlockStatement", 11, 3, <<>>),
        Nd("ExpressionStatement", 13, 3, <<>>),
        Nd("CallExpression", 14, 3, [callee |-> 16]),
        Ident(15, 3, "b"),
        Func("FunctionDeclaration", 1, 4, FALSE, [id |-> 18]),
        Ident(17, 4, "d"),
        Nd("BlockStatement", 17, 4, <<>>),
        Nd("ExpressionStatement", 19, 4, <<>>),
        Nd("CallExpression", 20, 4, [callee |-> 22]),
        Ident(21, 4, "c"),
        Func("FunctionDeclaration", 1, 5, FALSE, [id |-> 24]),
        Ident(23, 5, "e"),
        Nd("BlockStatement", 23, 5, <<>>),
        Nd("ExpressionStatement", 25, 5, <<>>),
        Nd("CallExpression", 26, 5, [callee |-> 28]),
        Ident(27, 5, "d"),
        Func("FunctionDeclaration", 1, 6, FALSE, [id |-> 30]),
        Ident(29, 6, "f"),
        Nd("BlockStatement", 29, 6, <<>>),
        Nd("ExpressionStatement", 31, 6, <<>>),
        Nd("CallExpression", 32, 6, [callee |-> 34]),
        Ident(33, 6, "e"),
        Nd("ExpressionStatement", 1, 7, <<>>),
        Nd("CallExpression", 35, 7, [callee |-> 37]),
        Ident(36, 7, "f") >>,
   scopes |->
     << [upper |-> 0, set |-> ("a" :> 2) @@ ("b" :> 5) @@ ("c" :> 11) @@ ("d" :> 17) @@ ("e" :> 23) @@ ("f" :> 29)],
        [upper |-> 1, set |-> ("arguments" :> Undefined)],
        [upper |-> 1, set |-> ("arguments" :> Undefined)],
        [upper |-> 1, set |-> ("arguments" :> Undefined)],
        [upper |-> 1, set |-> ("arguments" :> Undefined)],
        [upper |-> 1, set |-> ("arguments" :> Undefined)],
        [upper |-> 1, set |-> ("arguments" :> Undefined)] >>,
   acquire |-> (2 :> 2) @@ (5 :> 3) @@ (11 :> 4) @@ (17 :> 5) @@ (23 :> 6) @@ (29 :> 7),
   fragments |->
     << [pathToFile |-> "fixture.js", firstLineInFile |-> 1,
         source |-> <<"function a() {}", NL, "function b() { a(); }", NL, "function c() { b(); }", NL, "function d() { c(); }", NL, "function e() { d(); }", NL, "function f() { e(); }", NL, "f();">>] >>]

\* PageScripts: b/page.html: an inline script, a script file and an event handler
\*   b/page.html:2  x()
\*   b/page.html:3  y()
\*   a.js:1  a
\*   (event handler):0  void(function(event) {
\*   b/page.html:onclick:4  f()
\*   (event handler):0  });
PageScripts ==
  [nodes |->
     << Nd("Program", 0, 1, <<>>),
        Nd("ExpressionStatement", 1, 1, <<>>),
        Nd("CallExpression", 2, 1, [callee |-> 4]),
        Ident(3, 1, "x"),
        Nd("ExpressionStatement", 1, 2, <<>>),
        Nd("CallExpression", 5, 2, [callee |-> 7]),
        Ident(6, 2, "y"),
        Nd("ExpressionStatement", 1, 3, <<>>),
        Ident(8, 3, "a"),
        Nd("ExpressionStatement", 1, 4, <<>>),
        Nd("UnaryExpression", 10, 4, <<>>),
        Func("FunctionExpression", 11, 4, FALSE, <<>>),
        Ident(12, 4, "event"),
        Nd("BlockStatement", 12, 4, <<>>),
        Nd("ExpressionStatement", 14, 5, <<>>),
        Nd("CallExpression", 15, 5, [callee |-> 17]),
        Ident(16, 5, "f") >>,
   scopes |->
     << [upper |-> 0, set |-> <<>>],
        [upper |-> 1, set |-> ("arguments" :> Undefined) @@ ("event" :> 12)] >>,
   acquire |-> (12 :> 2),
   fragments |->
     << [pathToFile |-> <<"b", Sep, "page.html">>, firstLineInFile |-> 2,
         source |-> <<"x()", NL, "y()">>],
        [pathToFile |-> <<"a.js">>, firstLineInFile |-> 1,
         source |-> <<"a">>],
        [pathToFile |-> <<"(event handler)">>, firstLineInFile |-> 0,
         source |-> <<"void(function(event) {">>],
        [pathToFile |-> <<"b", Sep, "page.html", ":", "onclick">>, firstLineInFile |-> 4,
         source |-> <<"f()">>],
        [pathToFile |-> <<"(event handler)">>, firstLineInFile |-> 0,
         source |-> <<"});">>] >>]

\* PageHandler: page.html: an inline script and an event handler that calls into it
\*   page.html:2  function f() {
\*   page.html:3    g();
\*   page.html:4  }
\*   page.html:5  function g() {}
\*   (event handler):0  void(function(event) {
\*   page.html:onclick:7  f()
\*   (event handler):0  });
PageHandler ==
  [nodes |->
     << Nd("Program", 0, 1, <<>>),
        Func("FunctionDeclaration", 1, 1, FALSE, [id |-> 3]),
        Ident(2, 1, "f"),
        Nd("BlockStatement", 2, 1, <<>>),
        Nd("ExpressionStatement", 4, 2, <<>>),
        Nd("CallExpression", 5, 2, [callee |-> 7]),
        Ident(6, 2, "g"),
        Func("FunctionDeclaration", 1, 4, FALSE, [id |-> 9]),
        Ident(8, 4, "g"),
        Nd("BlockStatement", 8, 4, <<>>),
        Nd("ExpressionStatement", 1, 5, <<>>),
        Nd("UnaryExpression", 11, 5, <<>>),
        Func("FunctionExpression", 12, 5, FALSE, <<>>),
        Ident(13, 5, "event"),
        Nd("BlockStatement", 13, 5, <<>>),
        Nd("ExpressionStatement", 15, 6, <<>>),
        Nd("CallExpression", 16, 6, [callee |-> 18]),
        Ident(17, 6, "f") >>,
   scopes |->
     << [upper |-> 0, set |-> ("f" :> 2) @@ ("g" :> 8)],
        [upper |-> 1, set |-> ("arguments" :> Undefined)],
        [upper |-> 1, set |-> ("arguments" :> Undefined)],
        [upper |-> 1, set |-> ("arguments" :> Undefined) @@ ("event" :> 13)] >>,
   acquire |-> (2 :> 2) @@ (8 :> 3) @@ (13 :> 4),
   fragments |->
     << [pathToFile |-> <<"page.html">>, firstLineInFile |-> 2,
         source |-> <<"function f() {", NL, "  g();", NL, "}", NL, "function g() {}">>],
        [pathToFile |-> <<"(event handler)">>, firstLineInFile |-> 0,
         source |-> <<"void(function(event) {">>],
        [pathToFile |-> <<"page.html", ":", "onclick">>, firstLineInFile |-> 7,
         source |-> <<"f()">>],
        [pathToFile |-> <<"(event handler)">>, firstLineInFile |-> 0,
         source |-> <<"});">>] >>]

Programs ==
  << TwoFunctionsMinimal,
     TopFunctions,
     NameCollision,
     NameCollisionBlock,
     ObjectDefineThisMatch,
     PrototypeAssign,
     PrototypeDefine,
     VarConstructor,
     TemplateSplit,
     AccessorTemplateKey,
     SharedCallee,
     SharedCalleeReversed,
     NestedAwait,
     PatternHole,
     ArgumentsCtor,
     AccessorNamesake,
     DeepChain,
     PageScripts,
     PageHandler >>

\* The programs that are the scripts of a page.
PageProgIds == 18..19
\* END PROGRAM TABLES

\* The programs a JSDriver is given.
ProgIds == (1..Len(Programs)) \ PageProgIds

\* ------------------------------------------------------------------ paths
\* A path is the sequence of its characters.  A name that nothing looks into, such as
\* a.js or the parent directory's "..", is one character here; the name of the
\* directory next to the root, "d2", is the root's name "d" and one more character.
IsAbsolute(p) == p # <<>> /\ p[1] = Sep
startsWith(s, prefix) == Len(prefix) <= Len(s) /\ SubSeq(s, 1, Len(prefix)) = prefix
substr(s, start) == SubSeq(s, start + 1, Len(s))

\* s.split("/")
RECURSIVE SegmentsFrom(_, _, _)
SegmentsFrom(p, k, seg) ==
  IF k > Len(p) THEN <<seg>>
  ELSE IF p[k] = Sep THEN <<seg>> \o SegmentsFrom(p, k + 1, <<>>)
  ELSE SegmentsFrom(p, k + 1, Append(seg, p[k]))

\* Array.prototype.join
RECURSIVE JoinWith(_, _)
JoinWith(parts, sep) ==
  IF parts = <<>> THEN <<>>
  ELSE IF Len(parts) = 1 THEN parts[1]
  ELSE parts[1] \o sep \o JoinWith(Tail(parts), sep)

\* What node's path module does with the segments of a path: "" and "." are dropped,
\* ".." takes the segment before it away, and stays only in front of a relative path.
RECURSIVE NormalizeSegments(_, _, _)
NormalizeSegments(segs, res, allowAboveRoot) ==
  IF segs = <<>> THEN res
  ELSE LET seg == Head(segs)
           rest == Tail(segs)
       IN IF seg = <<>> \/ seg = <<".">> THEN NormalizeSegments(rest, res, allowAboveRoot)
          ELSE IF seg = <<"..">>
            THEN IF res # <<>> /\ res[Len(res)] # <<"..">>
                   THEN NormalizeSegments(rest, SubSeq(res, 1, Len(res) - 1), allowAboveRoot)
                 ELSE IF allowAboveRoot
                   THEN NormalizeSegments(rest, Append(res, seg), allowAboveRoot)
                 ELSE NormalizeSegments(rest, res, allowAboveRoot)
          ELSE NormalizeSegments(rest, Append(res, seg), allowAboveRoot)
NormalizeString(p, allowAboveRoot) ==
  JoinWith(NormalizeSegments(SegmentsFrom(p, 1, <<>>), <<>>, allowAboveRoot), <<Sep>>)

\* path.normalize(p)
pathNormalize(p) ==
  IF p = <<>> THEN <<".">>
  ELSE LET body == NormalizeString(p, ~IsAbsolute(p))
           trailingSeparator == p[Len(p)] = Sep
       IN IF body = <<>>
            THEN IF IsAbsolute(p) THEN <<Sep>>
                 ELSE IF trailingSeparator THEN <<".", Sep>> ELSE <<".">>
          ELSE (IF IsAbsolute(p) THEN <<Sep>> ELSE <<>>)
                 \o body \o (IF trailingSeparator THEN <<Sep>> ELSE <<>>)

\* path.join(...parts)
pathJoin(parts) ==
  LET given == SelectSeq(parts, LAMBDA part : part # <<>>)
  IN IF given = <<>> THEN <<".">> ELSE pathNormalize(JoinWith(given, <<Sep>>))

\* process.cwd(), and the rootDir the driver is built with.
Cwd == <<Sep, "p">>
RootDir == <<"d">>

\* path.resolve(...parts): the parts from the right up to the first absolute one, the
\* working directory in front when there is none.
RECURSIVE ResolveFrom(_, _, _)
ResolveFrom(parts, k, resolvedPath) ==
  LET part == IF k >= 1 THEN parts[k] ELSE Cwd
  IN IF part = <<>> THEN ResolveFrom(parts, k - 1, resolvedPath)
     ELSE IF IsAbsolute(part) \/ k = 0 THEN part \o <<Sep>> \o resolvedPath
     ELSE ResolveFrom(parts, k - 1, part \o <<Sep>> \o resolvedPath)
pathResolve(parts) ==
  <<Sep>> \o NormalizeString(ResolveFrom(parts, Len(parts), <<>>), FALSE)

\* The directory (given by its absolute, normalized path) holds the location.
IsInside(location, directory) ==
  LET l == SegmentsFrom(location, 1, <<>>)
      d == SegmentsFrom(directory, 1, <<>>)
  IN Len(d) <= Len(l) /\ SubSeq(l, 1, Len(d)) = d

\* The files on disk, by absolute path.
Disk ==
  (<<Sep, "p", Sep, "d", Sep, "a.js">> :> <<"a">>) @@
  (<<Sep, "p", Sep, "d", Sep, "b.js">> :> <<"b", NL, "b">>) @@
  (<<Sep, "p", Sep, "c.js">> :> <<"c">>)
\* The error of fs.readFile for a path that is none of the files: ENOTDIR when the
\* path leads through one of them, ENOENT when it names nothing.
ReadError(fullPath, files) ==
  IF \E k \in 1..(Len(fullPath) - 1) :
       fullPath[k + 1] = Sep /\ SubSeq(fullPath, 1, k) \in files
    THEN "Error: ENOTDIR"
  ELSE "Error: ENOENT"

\* The pages on disk that a configuration names, each as the events it gives.
Pages ==
  (<<"b", Sep, "page.html">> :>
     << [kind |-> "inlinescript", name |-> "", line |-> 2, text |-> <<"x()", NL, "y()">>],
        [kind |-> "loadscript", name |-> "", line |-> 3, text |-> <<"..", Sep, "a.js">>],
        [kind |-> "eventhandler", name |-> "onclick", line |-> 4, text |-> <<"f()">>] >>) @@
  (<<"page.html">> :>
     << [kind |-> "inlinescript", name |-> "", line |-> 2,
         text |-> <<"function f() {", NL, "  g();", NL, "}", NL, "function g() {}">>],
        [kind |-> "eventhandler", name |-> "onclick", line |-> 7, text |-> <<"f()">>] >>) @@
  (<<"c.html">> :>
     << [kind |-> "loadscript", name |-> "", line |-> 2, text |-> <<"a.js">>] >>)

\* The pages by absolute path, and the paths handed to parseHTMLFiles: a page, no
\* file, and a path that leads through a page.
PageFiles == {pathJoin(<<Cwd, RootDir, page>>) : page \in DOMAIN Pages}
HTMLFiles == {<<"page.html">>, <<"x.html">>, <<"page.html", Sep, "x.html">>}

\* The characters of the paths handed to appendJSFile.
PathText ==
  ("a.js" :> <<"a.js">>) @@ ("b.js" :> <<"b.js">>) @@ ("../c.js" :> <<"..", Sep, "c.js">>)

\* Those of them that lie in the root directory.
FilesInRoot ==
  {p \in DOMAIN PathText :
     IsInside(pathResolve(<<RootDir, PathText[p]>>), pathResolve(<<RootDir>>))}

\* The fragments handed to appendSource directly.
InlineSources ==
  { <<>>, <<"x">>, <<"x", NL>>, <<NL, "x", NL, "y">> }
InlineFirstLines == {0, 1, 3}

VARIABLES
  prog,            \* the program under analysis (0: none, the buffer alone is exercised)
  sources,         \* this.sources
  parsingBuffer,   \* this.parsingBuffer: the lines to parse
  lineMapping,     \* this.lineMapping
  appended,        \* the source of every appendSource call so far, in order
  reading,         \* appendJSFile calls awaiting fs.readFile: path -> how many
  outcome,         \* how the latest appendJSFile call went on: "reading", then
                   \* "appended"; or "TypeError", its promise rejected
  ast,             \* parseSources: the tree espree.parse gave and the scopes
                   \* eslintScope.analyze gave for it
  phase,           \* "append", "pass1", "pass2" (inside parseSources), "ready",
                   \* "running" (inside getAsyncStacks), "failed" (parseSources threw)
  path,            \* estraverse: the nodes entered and not yet left, innermost last
  next,            \* estraverse: the next node to enter
  mappingList,     \* lineMappingListener's copy of the line mapping
  nodeFile,        \* node.file, of the nodes entered in the first pass
  nodeLine,        \* node.line
  nodesByLine,     \* this.nodesByLine: <<file, line>> -> nodes
  currentScope,    \* currentScopeListener's cursor
  nodeToScope,     \* this.nodeToScope, of the nodes entered in the first pass
  valueNodeToKeyNode,        \* this.valueNodeToKeyNode
  accessorNodes,             \* this.accessorNodes
  prototypeStack,            \* this.prototypeStack, top first
  nodeToConstructorFunction, \* this.nodeToConstructorFunction
  constructorFunctions,      \* this.constructorFunctions
  callsByName,               \* this.callsByName: name -> nodes
  referencesByName,          \* this.referencesByName: name -> nodes
  functionStack,             \* this.functionStack, top first
  nodeToEnclosingFunction,   \* this.nodeToEnclosingFunction
  memberNodesInScope,        \* this.memberNodesInScope: function -> nodes, as inserted
  awaitCount,                \* awaitExpressionListener's counter
  nodesInAwaitCall,          \* this.nodesInAwaitCall
  ignoredNodes,              \* this.ignoredNodes
  functionNode,              \* getAsyncStacks: its argument
  asyncReferences,           \* getAsyncStacks: the map, as its keys in insertion
                             \* order and the edges under each key
  markedAsyncNodes,          \* getAsyncStacks: the worklist
  scheduledAsyncNodes,       \* getAsyncStacks: the nodes ever put on the worklist
  i,                         \* getAsyncStacks: the loop index (from 1)
  awaitNodesCalls,           \* the arguments of this call's getAwaitNodes calls, in order
  results,                   \* what each getAsyncStacks call returned, with its argument
  eventState,      \* HTMLDriver: this.eventState
  currentLocation, \* HTMLDriver: this.locations.current
  scriptStart,     \* HTMLDriver: this.locations.scriptStart
  recording,       \* HTMLDriver: this.recording (undefined counts as false)
  htmlReading,     \* HTMLDriver: the paths of the parseHTMLFiles calls awaiting
                   \* fs.readFile, in the order of the calls
  called,          \* the latest call of a function that only reads the driver: its
                   \* name, its arguments and what it returned or threw
  config,          \* the configuration getConfiguration returned, later the argument
                   \* of analyzeByConfiguration
  adjustments,     \* analyzeByConfiguration: its second argument
  original,        \* what the driver that wrote the configuration printed
  stage            \* "original": the driver that writes the configuration is at work;
                   \* "configured": a new driver runs analyzeByConfiguration; "marked":
                   \* it has marked the ignored nodes; "done": it has returned;
                   \* "TypeError", "Error": it has thrown

bufVars == <<sources, parsingBuffer, lineMapping, appended, reading, outcome>>
walkVars == <<path, next>>
pass1Vars == <<mappingList, nodeFile, nodeLine, nodesByLine, currentScope, nodeToScope>>
pass2Vars == <<valueNodeToKeyNode, accessorNodes, prototypeStack, nodeToConstructorFunction,
               constructorFunctions, callsByName, referencesByName, functionStack,
               nodeToEnclosingFunction, memberNodesInScope, awaitCount, nodesInAwaitCall>>
parseVars == <<ast, phase, walkVars, pass1Vars, pass2Vars>>
asyncVars == <<functionNode, asyncReferences, markedAsyncNodes, scheduledAsyncNodes, i,
               awaitNodesCalls, results>>
mainVars == <<parseVars, ignoredNodes, asyncVars>>
htmlVars == <<eventState, currentLocation, scriptStart, recording, htmlReading>>
configVars == <<config, adjustments, original, stage>>
toolVars == <<htmlVars, called, configVars>>
vars == <<prog, toolVars, bufVars, mainVars>>

\* What fs.readFile gives appendJSFile for each of these paths; under a program, for
\* the paths of its files.
FileSystem ==
  IF prog = 0 THEN [p \in DOMAIN PathText |-> Disk[pathResolve(<<RootDir, PathText[p]>>)]]
  ELSE LET files == Programs[prog].fragments
       IN [p \in {files[k].pathToFile : k \in 1..Len(files)} |->
             files[CHOOSE k \in 1..Len(files) : files[k].pathToFile = p].source]

\* ------------------------------------------------------------ source buffer
\* String.prototype.split("\n") on a text given as chunks and NL tokens: the lines,
\* each the sequence of its chunks.  The empty text has one (empty) line.
RECURSIVE SplitFrom(_, _, _)
SplitFrom(text, k, line) ==
  IF k > Len(text) THEN <<line>>
  ELSE IF text[k] = NL THEN <<line>> \o SplitFrom(text, k + 1, <<>>)
  ELSE SplitFrom(text, k + 1, Append(line, text[k]))
\* A split that gives the empty text no line at all.
SplitNonEmpty(text) == IF text = <<>> THEN <<>> ELSE SplitFrom(text, 1, <<>>)
Split(text) == SplitFrom(text, 1, <<>>)

\* A line mapping whose entries end one line early.
EndSourceLineShort(startSourceLine, addedLines) == startSourceLine + Len(addedLines) - 1
EndSourceLine(startSourceLine, addedLines) == startSourceLine + Len(addedLines)

\* appendSource: the buffer and the line mapping after the call.
AppendSource(buffer, mapping, pathToFile, firstLineInFile, source) ==
  LET startSourceLine == Len(buffer) + 1
      addedLines == Split(source)
  IN [parsingBuffer |-> buffer \o addedLines,
      lineMapping |-> Append(mapping,
        [startSourceLine |-> startSourceLine,
         pathToFile |-> pathToFile,
         firstLineInFile |-> firstLineInFile,
         endSourceLine |-> EndSourceLine(startSourceLine, addedLines)])]

InitBuffer ==
  /\ sources = {}
  /\ parsingBuffer = <<>>
  /\ lineMapping = <<>>
  /\ appended = <<>>
  /\ reading = [p \in DOMAIN FileSystem |-> 0]
  /\ outcome = "none"

\* driver.appendSource(pathToFile, firstLineInFile, source)
AppendSourceCall(pathToFile, firstLineInFile, source) ==
  /\ Len(lineMapping) < MaxAppends
  /\ LET r == AppendSource(parsingBuffer, lineMapping, pathToFile, firstLineInFile, source)
     IN /\ parsingBuffer' = r.parsingBuffer
        /\ lineMapping' = r.lineMapping
  /\ appended' = Append(appended, source)
  /\ UNCHANGED <<prog, toolVars, sources, reading, outcome, mainVars>>

ReadsInFlight == LET RECURSIVE Sum(_)
                     Sum(S) == IF S = {} THEN 0
                               ELSE LET p == CHOOSE x \in S : TRUE
                                    IN reading[p] + Sum(S \ {p})
                 IN Sum(DOMAIN reading)

\* driver.appendJSFile(pathToFile), up to its await: a registered path takes the early
\* return, whose this.sources.get is not a function of a Set (the promise is rejected);
\* otherwise the read starts.
AppendJSFileCall(pathToFile) ==
  /\ Len(lineMapping) + ReadsInFlight < MaxAppends
  /\ ReadsInFlight < MaxReads
  /\ IF pathToFile \in sources
       THEN /\ outcome' = "TypeError"
            /\ UNCHANGED reading
       ELSE /\ reading' = [reading EXCEPT ![pathToFile] = @ + 1]
            /\ outcome' = "reading"
  /\ UNCHANGED <<prog, toolVars, sources, parsingBuffer, lineMapping, appended, mainVars>>

\* fs.readFile resolves for one pending appendJSFile(pathToFile): the rest of the call.
AppendJSFileRead(pathToFile) ==
  /\ reading[pathToFile] > 0
  /\ reading' = [reading EXCEPT ![pathToFile] = @ - 1]
  /\ LET r == AppendSource(parsingBuffer, lineMapping, pathToFile, 1, FileSystem[pathToFile])
     IN /\ parsingBuffer' = r.parsingBuffer
        /\ lineMapping' = r.lineMapping
  /\ appended' = Append(appended, FileSystem[pathToFile])
  /\ sources' = sources \cup {pathToFile}
  /\ outcome' = "appended"
  /\ UNCHANGED <<prog, toolVars, mainVars>>

InitParse ==
  /\ ast = [nodes |-> <<>>, scopes |-> <<>>, acquire |-> <<>>]
  /\ phase = "append"
  /\ path = <<>>
  /\ next = 1
  /\ mappingList = <<>>
  /\ nodeFile = <<>>
  /\ nodeLine = <<>>
  /\ nodesByLine = <<>>
  /\ currentScope = Null
  /\ nodeToScope = <<>>
  /\ valueNodeToKeyNode = <<>>
  /\ accessorNodes = {}
  /\ prototypeStack = <<>>
  /\ nodeToConstructorFunction = <<>>
  /\ constructorFunctions = {}
  /\ callsByName = <<>>
  /\ referencesByName = <<>>
  /\ functionStack = <<>>
  /\ nodeToEnclosingFunction = <<>>
  /\ memberNodesInScope = <<>>
  /\ awaitCount = 0
  /\ nodesInAwaitCall = {}

InitAsync ==
  /\ ignoredNodes = {}
  /\ functionNode = Null
  /\ asyncReferences = [keys |-> <<>>, refs |-> <<>>]
  /\ markedAsyncNodes = <<>>
  /\ scheduledAsyncNodes = <<>>
  /\ i = 1
  /\ awaitNodesCalls = <<>>
  /\ results = <<>>

\* No configuration has been written or read.
InitConfig ==
  /\ config = [type |-> "none"]
  /\ adjustments = [caller |-> "none"]
  /\ original = [startAsync |-> Null]
  /\ stage = "original"

\* No HTML is being read and no function has been called.
InitTools ==
  /\ eventState = "none"
  /\ recording = FALSE
  /\ htmlReading = <<>>
  /\ currentLocation = [line |-> 0, column |-> 0, url |-> ""]
  /\ scriptStart = [line |-> 0, column |-> 0, url |-> ""]
  /\ called = [op |-> "none"]
  /\ InitConfig

InitBuf == prog = 0 /\ InitTools /\ InitBuffer /\ InitParse /\ InitAsync

\* The buffer under appendSource and appendJSFile, for the files in the root directory.
NextBuf ==
  \/ \E f \in InlineFirstLines, s \in InlineSources : AppendSourceCall("inline", f, s)
  \/ \E p \in FilesInRoot : AppendJSFileCall(p)
  \/ \E p \in FilesInRoot : AppendJSFileRead(p)

SpecBuf == InitBuf /\ [][NextBuf]_vars

\* appendJSFile alone, for every path.
NextFiles ==
  \/ \E p \in DOMAIN FileSystem : AppendJSFileCall(p)
  \/ \E p \in DOMAIN FileSystem : AppendJSFileRead(p)

SpecFiles == InitBuf /\ [][NextFiles]_vars

\* ------------------------------------------------------ the parsed program
Nodes == ast.nodes
Scopes == ast.scopes
Fragments == Programs[prog].fragments
NodeIds == 1..Len(Nodes)
HasKid(node, role) == role \in DOMAIN Nodes[node].kids
Kid(node, role) == Nodes[node].kids[role]
\* manager.acquire(node): the scope a function node creates.
Acquire(node) == ast.acquire[node]

\* A driver that ignores nothing.
NeverIgnored(node) == FALSE
\* this.ignoredNodes.has(node)
IsIgnored(node) == node \in ignoredNodes

\* Map.prototype.set, and the push onto the array under a key that parseSources does.
Put(map, key, value) == (key :> value) @@ map
Push(map, key, value) ==
  IF key \in DOMAIN map THEN [map EXCEPT ![key] = Append(@, value)]
  ELSE (key :> <<value>>) @@ map

\* Set.prototype.add on the Set under a key, the Set kept in insertion order.
Has(list, value) == \E k \in 1..Len(list) : list[k] = value
SetAdd(map, key, value) ==
  IF key \in DOMAIN map
    THEN IF Has(map[key], value) THEN map ELSE [map EXCEPT ![key] = Append(@, value)]
  ELSE (key :> <<value>>) @@ map

\* F(v), with v evaluated once.
Bind(v, F(_)) == CHOOSE r \in {F(x) : x \in {v}} : TRUE

FunctionTypes == {"FunctionDeclaration", "FunctionExpression", "ArrowFunctionExpression"}
isFunctionNode(node) == Nodes[node].type \in FunctionTypes

isPrototypeMember(node) ==
  /\ Nodes[node].type = "MemberExpression"
  /\ Nodes[Kid(node, "property")].type = "Identifier"
  /\ Nodes[Kid(node, "property")].name = "prototype"

isMemberThis(node) ==
  /\ Nodes[node].type = "MemberExpression"
  /\ Nodes[Kid(node, "object")].type = "ThisExpression"

isPrototypeAssignMethod(node) ==
  /\ Nodes[node].type = "AssignmentExpression"
  /\ isFunctionNode(Kid(node, "right"))
  /\ Nodes[Kid(node, "left")].type = "MemberExpression"
  /\ Nodes[Kid(Kid(node, "left"), "property")].type = "Identifier"
  /\ isPrototypeMember(Kid(Kid(node, "left"), "object"))

\* The node types espree gives an id field.
IdTypes == FunctionTypes \cup {"VariableDeclarator", "ClassDeclaration", "ClassExpression"}
\* The nodes the second pass hands to referencesByNameRecorder.
IsRecorded(node) ==
  \/ Nodes[node].type \in IdTypes
  \/ Nodes[node].type \in {"CallExpression", "MemberExpression", "NewExpression"}

\* getNodeName's results that are not names in the program: the text of the method
\* itself, which a BinaryExpression gets, and the thrown Error.
GetNodeNameSource == "function(node) { ... }"
UnknownNodeType == "Error: Unknown node type"
\* isFunctionNode(null), for the hole of an array pattern or a node that was not found
NullNodeType == "TypeError: Cannot read properties of null (reading 'type')"
IsThrown(name) == name \in {UnknownNodeType, NullNodeType}

\* The children of a node (the properties of an object pattern).
ChildrenOf(node) == {n \in NodeIds : Nodes[n].parent = node}
RECURSIVE InOrder(_)
InOrder(S) ==
  IF S = {} THEN <<>>
  ELSE LET n == CHOOSE x \in S : \A y \in S : x <= y
       IN <<n>> \o InOrder(S \ {n})
\* Array.prototype.toString of an array of strings.
RECURSIVE JoinNames(_)
JoinNames(names) ==
  IF names = <<>> THEN ""
  ELSE IF Len(names) = 1 THEN names[1]
  ELSE names[1] \o "," \o JoinNames(Tail(names))

\* getNodeName(node), reading the given valueNodeToKeyNode.
RECURSIVE getNodeNameIn(_, _)
getNodeNameIn(v2k, node) ==
  IF node \in DOMAIN v2k THEN getNodeNameIn(v2k, v2k[node])
  ELSE IF isFunctionNode(node)
    THEN IF HasKid(node, "id") THEN getNodeNameIn(v2k, Kid(node, "id")) ELSE "(lambda)"
  ELSE LET type == Nodes[node].type
           mapped == IF type = "ArrayPattern" THEN Nodes[node].elements
                     ELSE InOrder(ChildrenOf(node))
           names == [k \in 1..Len(mapped) |->
                       IF mapped[k] = Null THEN NullNodeType
                       ELSE getNodeNameIn(v2k, mapped[k])]
           thrown == {k \in 1..Len(mapped) : IsThrown(names[k])}
           first == CHOOSE k \in thrown : \A j \in thrown : k <= j
           list == JoinNames(names)
       IN CASE type = "ArrayPattern" ->
                 IF thrown # {} THEN names[first] ELSE "[ " \o list \o " ]"
            [] type = "BinaryExpression" -> GetNodeNameSource
            [] type = "CallExpression" -> getNodeNameIn(v2k, Kid(node, "callee"))
            [] type = "Identifier" -> Nodes[node].name
            [] type = "Literal" -> Nodes[node].raw
            [] type = "MemberExpression" -> getNodeNameIn(v2k, Kid(node, "property"))
            [] type = "NewExpression" -> getNodeNameIn(v2k, Kid(node, "callee"))
            [] type = "ObjectPattern" ->
                 IF thrown # {} THEN names[first] ELSE "{ " \o list \o " }"
            [] type = "Property" -> getNodeNameIn(v2k, Kid(node, "key"))
            [] type = "ThisExpression" -> "this"
            [] type = "VariableDeclarator" -> getNodeNameIn(v2k, Kid(node, "id"))
            [] OTHER -> UnknownNodeType

getNodeName(node) == getNodeNameIn(valueNodeToKeyNode, node)

\* The nearest scope from the given one upwards that declares the name, or Null.
RECURSIVE DeclaringScope(_, _)
DeclaringScope(scope, name) ==
  IF scope = Null THEN Null
  ELSE IF name \in DOMAIN Scopes[scope].set THEN scope
  ELSE DeclaringScope(Scopes[scope].upper, name)

\* getConstructorFunction(refNode), for a refNode whose name getNodeName can give:
\* the node of the first definition of the name, Undefined without a declaring scope.
\* The variable arguments of a function has no definition: reading the node of
\* defs[0] throws a TypeError.
getConstructorFunctionIn(v2k, refNode) ==
  LET name == getNodeNameIn(v2k, refNode)
      scope == DeclaringScope(nodeToScope[refNode], name)
  IN IF scope = Null THEN Undefined ELSE Scopes[scope].set[name]
getConstructorFunctionThrows(v2k, refNode) ==
  LET name == getNodeNameIn(v2k, refNode)
      scope == DeclaringScope(nodeToScope[refNode], name)
  IN IsThrown(name) \/ (scope # Null /\ Scopes[scope].set[name] = Undefined)

\* ------------------------------------------------------------ estraverse
\* estraverse.traverse visits the tree depth first: it enters the next node when that
\* is a child of the innermost entered node, and leaves the innermost node otherwise.
Entering ==
  /\ next <= Len(Nodes)
  /\ IF path = <<>> THEN next = 1 ELSE Nodes[next].parent = path[Len(path)]
Leaving == path # <<>> /\ ~Entering
Innermost == path[Len(path)]
LeavingRoot == Len(path) = 1

\* The program's sources reach the buffer through appendSource, in order.
AppendProgramSource ==
  /\ phase = "append"
  /\ Len(lineMapping) < Len(Fragments)
  /\ LET f == Fragments[Len(lineMapping) + 1]
     IN AppendSourceCall(f.pathToFile, f.firstLineInFile, f.source)

\* parseSources, up to its first traversal: lineMappingListener copies the line
\* mapping, currentScopeListener starts at the scope of the whole program.
ParseSourcesOf(q) ==
  /\ phase = "append"
  /\ phase' = "pass1"
  /\ ast' = [nodes |-> Programs[q].nodes, scopes |-> Programs[q].scopes,
             acquire |-> Programs[q].acquire]
  /\ mappingList' = lineMapping
  /\ currentScope' = 1
  /\ UNCHANGED <<toolVars, bufVars, walkVars, nodeFile, nodeLine, nodesByLine, nodeToScope,
                 pass2Vars, ignoredNodes, asyncVars>>

\* parseSources of the program's sources.
ParseSources ==
  /\ Len(lineMapping) = Len(Fragments)
  /\ ParseSourcesOf(prog)
  /\ UNCHANGED prog

\* lineMappingListener's while loop: drop the entries that end at or before the line.
RECURSIVE ShiftMapping(_, _)
ShiftMapping(list, parseLine) ==
  IF list = <<>> THEN list
  ELSE IF parseLine >= list[1].endSourceLine THEN ShiftMapping(Tail(list), parseLine)
  ELSE list

\* First pass, enter: lineMappingListener, then currentScopeListener.
Pass1Enter ==
  /\ phase = "pass1"
  /\ Entering
  /\ LET node == next
         parseLine == Nodes[node].line
         shifted == ShiftMapping(mappingList, parseLine)
     IN IF shifted = <<>>
          THEN \* mappingList[0] is undefined: TypeError
               /\ phase' = "failed"
               /\ UNCHANGED <<walkVars, pass1Vars>>
          ELSE LET mapping == shifted[1]
                   line == parseLine - mapping.startSourceLine + mapping.firstLineInFile
               IN /\ mappingList' = shifted
                  /\ nodeFile' = Append(nodeFile, mapping.pathToFile)
                  /\ nodeLine' = Append(nodeLine, line)
                  /\ nodesByLine' = Push(nodesByLine, <<mapping.pathToFile, line>>, node)
                  /\ nodeToScope' = Append(nodeToScope, currentScope)
                  /\ currentScope' = IF isFunctionNode(node) THEN Acquire(node)
                                     ELSE currentScope
                  /\ path' = Append(path, node)
                  /\ next' = next + 1
                  /\ UNCHANGED phase
  /\ UNCHANGED <<prog, toolVars, ast, bufVars, pass2Vars, ignoredNodes, asyncVars>>

\* First pass, leave: currentScopeListener.  Leaving the root ends the traversal;
\* prototypeListener() and functionStackListener() then reset their stacks.
Pass1Leave ==
  /\ phase = "pass1"
  /\ Leaving
  /\ currentScope' = IF isFunctionNode(Innermost) THEN Scopes[currentScope].upper
                     ELSE currentScope
  /\ path' = SubSeq(path, 1, Len(path) - 1)
  /\ IF LeavingRoot
       THEN /\ phase' = "pass2"
            /\ next' = 1
            /\ prototypeStack' = <<>>
            /\ functionStack' = <<>>
       ELSE UNCHANGED <<phase, next, prototypeStack, functionStack>>
  /\ UNCHANGED <<prog, toolVars, ast, bufVars, mappingList, nodeFile, nodeLine, nodesByLine, nodeToScope,
                 valueNodeToKeyNode, accessorNodes, nodeToConstructorFunction,
                 constructorFunctions, callsByName, referencesByName,
                 nodeToEnclosingFunction, memberNodesInScope, awaitCount,
                 nodesInAwaitCall, ignoredNodes, asyncVars>>

\* ------------------------------------------------- parseSources, second pass
\* What the listeners of the second pass read and write; threw: an earlier listener
\* of this visit threw, so the rest did not run.
Indexes ==
  [valueNodeToKeyNode |-> valueNodeToKeyNode,
   accessorNodes |-> accessorNodes,
   prototypeStack |-> prototypeStack,
   nodeToConstructorFunction |-> nodeToConstructorFunction,
   constructorFunctions |-> constructorFunctions,
   callsByName |-> callsByName,
   referencesByName |-> referencesByName,
   functionStack |-> functionStack,
   nodeToEnclosingFunction |-> nodeToEnclosingFunction,
   memberNodesInScope |-> memberNodesInScope,
   awaitCount |-> awaitCount,
   nodesInAwaitCall |-> nodesInAwaitCall,
   threw |-> FALSE]

Throws(d, node) == IsThrown(getNodeNameIn(d.valueNodeToKeyNode, node))
ConstructorThrows(d, refNode) == getConstructorFunctionThrows(d.valueNodeToKeyNode, refNode)

\* The anonymous listener of parseSources that relates values to their keys.
keyValueEnter(d, node) ==
  IF Nodes[node].type = "AssignmentExpression"
    THEN [d EXCEPT !.valueNodeToKeyNode = Put(@, Kid(node, "right"), Kid(node, "left"))]
  ELSE IF Nodes[node].type = "Property"
    THEN [d EXCEPT !.valueNodeToKeyNode = Put(@, Kid(node, "value"), Kid(node, "key")),
                   !.accessorNodes = IF Nodes[node].kind # "init"
                                       THEN @ \cup {Kid(node, "value")} ELSE @]
  ELSE d

prototypeListenerEnter(d, node) ==
  IF d.threw THEN d
  ELSE IF Nodes[node].type = "AssignmentExpression" /\ isPrototypeMember(Kid(node, "left"))
    THEN [d EXCEPT !.prototypeStack = <<Kid(Kid(node, "left"), "object")>> \o @]
  ELSE IF isPrototypeAssignMethod(node)
    THEN LET refNode == Kid(Kid(Kid(node, "left"), "object"), "object")
             ctorNode == getConstructorFunctionIn(d.valueNodeToKeyNode, refNode)
         IN IF ConstructorThrows(d, refNode) THEN [d EXCEPT !.threw = TRUE]
            ELSE IF ctorNode # Undefined
              THEN [d EXCEPT !.nodeToConstructorFunction = Put(@, Kid(node, "right"), ctorNode)]
            ELSE d
  ELSE d

prototypeListenerLeave(d, node) ==
  IF Nodes[node].type = "AssignmentExpression" /\ isPrototypeMember(Kid(node, "left"))
    THEN [d EXCEPT !.prototypeStack = Tail(@)]
  ELSE d

\* referencesByNameRecorder, first block: A.prototype = { b: true }, looking at b.
RecordPrototypeMember(d, node) ==
  IF d.prototypeStack = <<>> THEN d
  ELSE IF ConstructorThrows(d, d.prototypeStack[1]) THEN [d EXCEPT !.threw = TRUE]
  ELSE LET ctorNode == getConstructorFunctionIn(d.valueNodeToKeyNode, d.prototypeStack[1])
       IN IF ctorNode # Undefined
            THEN [d EXCEPT !.nodeToConstructorFunction = Put(@, node, ctorNode)]
          ELSE d

\* referencesByNameRecorder, second block: X = new A().
RecordConstructor(d, node) ==
  IF d.threw \/ Nodes[node].type # "NewExpression" THEN d
  ELSE IF ConstructorThrows(d, Kid(node, "callee")) THEN [d EXCEPT !.threw = TRUE]
  ELSE LET ctorNode == getConstructorFunctionIn(d.valueNodeToKeyNode, Kid(node, "callee"))
       IN IF ctorNode # Undefined
            THEN [d EXCEPT !.constructorFunctions = @ \cup {ctorNode}]
          ELSE d

\* referencesByNameRecorder, the rest: the node goes under its name.
RecordByName(d, node) ==
  IF d.threw \/ IsIgnored(node) \/ node \in d.accessorNodes THEN d
  ELSE IF Throws(d, node) THEN [d EXCEPT !.threw = TRUE]
  ELSE LET name == getNodeNameIn(d.valueNodeToKeyNode, node)
       IN IF Nodes[node].type \in {"CallExpression", "NewExpression"}
            THEN [d EXCEPT !.callsByName = Push(@, name, node)]
          ELSE [d EXCEPT !.referencesByName = Push(@, name, node)]

referencesByNameRecorder(d, node) ==
  Bind(RecordPrototypeMember(d, node), LAMBDA d1 :
    Bind(RecordConstructor(d1, node), LAMBDA d2 :
      RecordByName(d2, node)))

\* The anonymous listener of parseSources that calls referencesByNameRecorder.
recorderEnter(d, node) ==
  IF d.threw \/ ~IsRecorded(node) THEN d ELSE referencesByNameRecorder(d, node)

functionStackListenerEnterAll(d, node) ==
  IF d.threw THEN d
  ELSE LET e == IF d.functionStack # <<>>
                  THEN [d EXCEPT !.nodeToEnclosingFunction = Put(@, node, d.functionStack[1]),
                                 !.memberNodesInScope =
                                    IF isMemberThis(node)
                                      THEN SetAdd(@, d.functionStack[1], Kid(node, "property"))
                                    ELSE @]
                ELSE d
       IN IF isFunctionNode(node) THEN [e EXCEPT !.functionStack = <<node>> \o @] ELSE e
functionStackListenerEnter(d, node) ==
  IF d.threw THEN d
  ELSE IF isFunctionNode(node) THEN [d EXCEPT !.functionStack = <<node>> \o @]
  ELSE IF d.functionStack # <<>>
    THEN LET current == d.functionStack[1]
         IN [d EXCEPT !.nodeToEnclosingFunction = Put(@, node, current),
                      !.memberNodesInScope =
                         IF isMemberThis(node) THEN SetAdd(@, current, Kid(node, "property"))
                         ELSE @]
  ELSE d

functionStackListenerLeave(d, node) ==
  IF isFunctionNode(node) THEN [d EXCEPT !.functionStack = Tail(@)] ELSE d

awaitExpressionListenerEnter(d, node) ==
  IF d.threw THEN d
  ELSE IF Nodes[node].type = "AwaitExpression" THEN [d EXCEPT !.awaitCount = @ + 1]
  ELSE IF d.awaitCount # 0 THEN [d EXCEPT !.nodesInAwaitCall = @ \cup {node}]
  ELSE d

awaitExpressionListenerLeaveKeeps(d, node) == d
awaitExpressionListenerLeave(d, node) ==
  IF Nodes[node].type = "AwaitExpression" THEN [d EXCEPT !.awaitCount = @ - 1] ELSE d

\* MultiplexListeners.enter: the listeners in the order they were appended.
ListenersEnter(d, node) ==
  Bind(keyValueEnter(d, node), LAMBDA d1 :
    Bind(prototypeListenerEnter(d1, node), LAMBDA d2 :
      Bind(recorderEnter(d2, node), LAMBDA d3 :
        Bind(functionStackListenerEnter(d3, node), LAMBDA d4 :
          awaitExpressionListenerEnter(d4, node)))))

\* MultiplexListeners.leave: the listeners in the reverse order.
ListenersLeave(d, node) ==
  Bind(awaitExpressionListenerLeave(d, node), LAMBDA d1 :
    Bind(functionStackListenerLeave(d1, node), LAMBDA d2 :
      prototypeListenerLeave(d2, node)))

StoreIndexes(d) ==
  /\ valueNodeToKeyNode' = d.valueNodeToKeyNode
  /\ accessorNodes' = d.accessorNodes
  /\ prototypeStack' = d.prototypeStack
  /\ nodeToConstructorFunction' = d.nodeToConstructorFunction
  /\ constructorFunctions' = d.constructorFunctions
  /\ callsByName' = d.callsByName
  /\ referencesByName' = d.referencesByName
  /\ functionStack' = d.functionStack
  /\ nodeToEnclosingFunction' = d.nodeToEnclosingFunction
  /\ memberNodesInScope' = d.memberNodesInScope
  /\ awaitCount' = d.awaitCount
  /\ nodesInAwaitCall' = d.nodesInAwaitCall

\* Second pass, enter.  A throw in a listener ends parseSources with what was
\* recorded so far.
Pass2Enter ==
  /\ phase = "pass2"
  /\ Entering
  /\ \E d \in {ListenersEnter(Indexes, next)} :
        /\ StoreIndexes(d)
        /\ IF d.threw
             THEN /\ phase' = "failed"
                  /\ UNCHANGED walkVars
             ELSE /\ path' = Append(path, next)
                  /\ next' = next + 1
                  /\ UNCHANGED phase
  /\ UNCHANGED <<prog, toolVars, ast, bufVars, pass1Vars, ignoredNodes, asyncVars>>

\* Second pass, leave.  Leaving the root ends parseSources.
Pass2Leave ==
  /\ phase = "pass2"
  /\ Leaving
  /\ \E d \in {ListenersLeave(Indexes, Innermost)} : StoreIndexes(d)
  /\ path' = SubSeq(path, 1, Len(path) - 1)
  /\ phase' = IF LeavingRoot THEN "ready" ELSE phase
  /\ UNCHANGED <<prog, toolVars, ast, bufVars, next, pass1Vars, ignoredNodes, asyncVars>>

\* ------------------------------------------------------------ markIgnored
\* The nodes a user marks: calls, functions, and the property names of this.name.
Ignorable ==
  {n \in NodeIds :
     \/ Nodes[n].type \in {"CallExpression", "NewExpression"}
     \/ isFunctionNode(n)
     \/ /\ Nodes[n].type = "Identifier"
        /\ isMemberThis(Nodes[n].parent)
        /\ Kid(Nodes[n].parent, "property") = n}

\* driver.markIgnored(node), before the first getAsyncStacks.
MarkIgnored(node) ==
  /\ phase = "ready"
  /\ results = <<>>
  /\ Cardinality(ignoredNodes) < MaxIgnored
  /\ node \in Ignorable \ ignoredNodes
  /\ ignoredNodes' = ignoredNodes \cup {node}
  /\ UNCHANGED <<prog, toolVars, bufVars, parseVars, asyncVars>>

\* ---------------------------------------------------------- getAwaitNodes
\* The filter's while loop: asyncScope is awaitScope or above it.
RECURSIVE ScopeReaches(_, _)
ScopeReaches(awaitScope, asyncScope) ==
  IF awaitScope = Null THEN FALSE
  ELSE IF awaitScope = asyncScope THEN TRUE
  ELSE ScopeReaches(Scopes[awaitScope].upper, asyncScope)

\* A filter that keeps every node.
KeepsEveryAwaitNode(maybe, asyncScope) == maybe # Undefined
\* The filter of getAwaitNodes; nodeToScope has nothing for undefined.
KeepsAwaitNode(maybe, asyncScope) ==
  /\ maybe \notin nodesInAwaitCall
  /\ maybe # Undefined
  /\ ScopeReaches(nodeToScope[maybe], asyncScope)

\* The members of the constructor that memberNodes.forEach reaches: all, or those
\* up to the first whose name getNodeName cannot give.
MembersReached(memberNodes) ==
  LET bad == {k \in 1..Len(memberNodes) : IsThrown(getNodeName(memberNodes[k]))}
  IN IF bad = {} THEN memberNodes
     ELSE SubSeq(memberNodes, 1, (CHOOSE k \in bad : \A j \in bad : k <= j) - 1)

\* getAwaitNodes(asyncNode): the await nodes, and callsByName after the call.  Without
\* the concat of the accessor case maybeAwaitNodes is the very array that callsByName
\* holds for the name, so the constructor's members are pushed onto that array.
getAwaitNodes(asyncNode) ==
  LET asyncScope == nodeToScope[asyncNode]
      asyncName == getNodeName(asyncNode)
      indexed == asyncName \in DOMAIN callsByName
      calls == IF indexed THEN callsByName[asyncName] ELSE <<>>
      accessor == asyncNode \in accessorNodes
      direct == IF accessor
                  THEN calls \o (IF asyncName \in DOMAIN referencesByName
                                   THEN referencesByName[asyncName] ELSE <<Undefined>>)
                ELSE calls
      ctorNode == IF asyncNode \in DOMAIN nodeToConstructorFunction
                    THEN nodeToConstructorFunction[asyncNode] ELSE Undefined
      memberNodes == IF ctorNode # Undefined /\ ctorNode \in DOMAIN memberNodesInScope
                       THEN memberNodesInScope[ctorNode] ELSE <<>>
      reached == MembersReached(memberNodes)
      maybeAwaitNodes ==
        direct \o SelectSeq(reached, LAMBDA n : getNodeName(n) = asyncName)
  IN IF IsThrown(asyncName)
       THEN [threw |-> TRUE, awaitNodes |-> <<>>, callsByName |-> callsByName]
     ELSE [threw |-> reached # memberNodes,
           awaitNodes |-> SelectSeq(maybeAwaitNodes,
                                    LAMBDA maybe : KeepsAwaitNode(maybe, asyncScope)),
           callsByName |-> IF indexed /\ ~accessor
                             THEN [callsByName EXCEPT ![asyncName] = maybeAwaitNodes]
                           ELSE callsByName]

\* ---------------------------------------------------------- getAsyncStacks
\* A worklist that takes the new node right after the current one.
ScheduleNext(marked, at, nextAsyncNode) ==
  SubSeq(marked, 1, at) \o <<nextAsyncNode>> \o SubSeq(marked, at + 1, Len(marked))
\* markedAsyncNodes.push(nextAsyncNode)
Schedule(marked, at, nextAsyncNode) == Append(marked, nextAsyncNode)

\* The body of awaitNodes.forEach for one await node; g: the references array of the
\* key, the worklist and the scheduled set (a Set keeps its insertion order).
GatherCallerAgain(g, awaitNode) ==
  LET nextAsyncNode == IF awaitNode \in DOMAIN nodeToEnclosingFunction
                         THEN nodeToEnclosingFunction[awaitNode] ELSE Undefined
  IN IF IsIgnored(awaitNode) THEN g
     ELSE IF nextAsyncNode = Undefined \/ IsIgnored(nextAsyncNode)
       THEN [g EXCEPT !.references =
                        Append(@, [awaitNode |-> awaitNode, asyncNode |-> Undefined])]
     ELSE [g EXCEPT !.references =
                      Append(@, [awaitNode |-> awaitNode,
                                 asyncNode |-> IF Nodes[nextAsyncNode].async THEN Null
                                               ELSE nextAsyncNode]),
                    !.scheduled = Append(@, nextAsyncNode),
                    !.marked = Schedule(@, i, nextAsyncNode)]
GatherCaller(g, awaitNode) ==
  LET nextAsyncNode == IF awaitNode \in DOMAIN nodeToEnclosingFunction
                         THEN nodeToEnclosingFunction[awaitNode] ELSE Undefined
  IN IF IsIgnored(awaitNode) THEN g
     ELSE IF nextAsyncNode = Undefined \/ IsIgnored(nextAsyncNode)
       THEN [g EXCEPT !.references =
                        Append(@, [awaitNode |-> awaitNode, asyncNode |-> Undefined])]
     ELSE LET refData == [awaitNode |-> awaitNode,
                          asyncNode |-> IF Nodes[nextAsyncNode].async THEN Null
                                        ELSE nextAsyncNode]
          IN IF Has(g.scheduled, nextAsyncNode)
               THEN [g EXCEPT !.references = Append(@, refData)]
             ELSE [g EXCEPT !.references = Append(@, refData),
                            !.scheduled = Append(@, nextAsyncNode),
                            !.marked = Schedule(@, i, nextAsyncNode)]

RECURSIVE GatherCallers(_, _)
GatherCallers(g, awaitNodes) ==
  IF awaitNodes = <<>> THEN g
  ELSE Bind(GatherCaller(g, Head(awaitNodes)), LAMBDA g1 :
         GatherCallers(g1, Tail(awaitNodes)))

\* Map.prototype.set on the returned map: a new key goes last.
SetReferences(map, key, references) ==
  [keys |-> IF Has(map.keys, key) THEN map.keys ELSE Append(map.keys, key),
   refs |-> Put(map.refs, key, references)]

\* The functions a user hands to getAsyncStacks, found by functionNodeFromLine.
Seeds == {n \in NodeIds : isFunctionNode(n)}

\* driver.getAsyncStacks(functionNode), up to the loop.
GetAsyncStacks(node) ==
  /\ phase = "ready"
  /\ Len(results) < MaxCalls
  /\ node \in Seeds
  /\ phase' = "running"
  /\ functionNode' = node
  /\ asyncReferences' =
       [keys |-> <<Null>>,
        refs |-> (Null :> <<[awaitNode |-> Undefined, asyncNode |-> node]>>)]
  /\ markedAsyncNodes' = <<node>>
  /\ scheduledAsyncNodes' = <<node>>
  /\ i' = 1
  /\ awaitNodesCalls' = <<>>
  /\ UNCHANGED <<prog, toolVars, ast, bufVars, walkVars, pass1Vars, pass2Vars, ignoredNodes, results>>

\* One iteration of the loop of getAsyncStacks.  A throw of getNodeName inside
\* getAwaitNodes ends the call without a map.
GetAsyncStacksLoop ==
  /\ phase = "running"
  /\ i <= Len(markedAsyncNodes)
  /\ \E asyncNode \in {markedAsyncNodes[i]} :
     \E r \in {IF IsIgnored(asyncNode) THEN <<>> ELSE getAwaitNodes(asyncNode)} :
     \E g \in {IF IsIgnored(asyncNode) \/ r.threw THEN <<>>
               ELSE GatherCallers([references |-> <<>>, marked |-> markedAsyncNodes,
                                   scheduled |-> scheduledAsyncNodes], r.awaitNodes)} :
        IF IsIgnored(asyncNode)
          THEN /\ i' = i + 1
               /\ UNCHANGED <<phase, callsByName, asyncReferences, markedAsyncNodes,
                              scheduledAsyncNodes, awaitNodesCalls, results>>
        ELSE /\ awaitNodesCalls' = Append(awaitNodesCalls, asyncNode)
             /\ callsByName' = r.callsByName
             /\ IF r.threw
                  THEN /\ phase' = "ready"
                       /\ results' = Append(results,
                            [functionNode |-> functionNode, threw |-> TRUE,
                             asyncReferences |-> asyncReferences])
                       /\ UNCHANGED <<i, asyncReferences, markedAsyncNodes,
                                      scheduledAsyncNodes>>
                ELSE /\ i' = i + 1
                     /\ UNCHANGED <<phase, results>>
                     /\ IF r.awaitNodes = <<>>
                          THEN UNCHANGED <<asyncReferences, markedAsyncNodes,
                                           scheduledAsyncNodes>>
                        ELSE /\ asyncReferences' =
                                  SetReferences(asyncReferences, asyncNode, g.references)
                             /\ markedAsyncNodes' = g.marked
                             /\ scheduledAsyncNodes' = g.scheduled
  /\ UNCHANGED <<prog, toolVars, ast, bufVars, walkVars, pass1Vars, valueNodeToKeyNode, accessorNodes,
                 prototypeStack, nodeToConstructorFunction, constructorFunctions,
                 referencesByName, functionStack, nodeToEnclosingFunction,
                 memberNodesInScope, awaitCount, nodesInAwaitCall, ignoredNodes,
                 functionNode>>

\* The loop is over: getAsyncStacks returns the map.
GetAsyncStacksReturn ==
  /\ phase = "running"
  /\ i > Len(markedAsyncNodes)
  /\ phase' = "ready"
  /\ results' = Append(results, [functionNode |-> functionNode, threw |-> FALSE,
                                 asyncReferences |-> asyncReferences])
  /\ UNCHANGED <<prog, toolVars, ast, bufVars, walkVars, pass1Vars, pass2Vars, ignoredNodes,
                 functionNode, asyncReferences, markedAsyncNodes, scheduledAsyncNodes, i,
                 awaitNodesCalls>>

isAsyncSyntaxError(node) == node \in accessorNodes \/ node \in constructorFunctions

\* ------------------------------------------------------- the specification
Init ==
  /\ prog \in ProgIds
  /\ InitTools
  /\ InitBuffer
  /\ InitParse
  /\ InitAsync

Next ==
  \/ AppendProgramSource
  \/ ParseSources
  \/ Pass1Enter
  \/ Pass1Leave
  \/ Pass2Enter
  \/ Pass2Leave
  \/ \E node \in NodeIds : MarkIgnored(node)
  \/ \E node \in NodeIds : GetAsyncStacks(node)
  \/ GetAsyncStacksLoop
  \/ GetAsyncStacksReturn

Spec == Init /\ [][Next]_vars

\* ------------------------------------------------------------- node lookup
\* nodeByLineFilterIndex(pathToFile, lineNumber, index, filter), for a filter that
\* accepts the nodes of the given types: the node found (null when the filtered list
\* has no such index), or the throw when nothing is recorded for the file and line.
nodeByLineUnfiltered(pathToFile, lineNumber, index, types) ==
  LET key == <<pathToFile, lineNumber>>
  IN IF key \notin DOMAIN nodesByLine THEN [threw |-> TRUE, node |-> Undefined]
     ELSE [threw |-> FALSE,
           node |-> IF index + 1 \in 1..Len(nodesByLine[key])
                      THEN nodesByLine[key][index + 1] ELSE Null]
nodeByLineFilterIndex(pathToFile, lineNumber, index, types) ==
  LET key == <<pathToFile, lineNumber>>
  IN IF key \notin DOMAIN nodesByLine THEN [threw |-> TRUE, node |-> Undefined]
     ELSE LET nodeList == SelectSeq(nodesByLine[key], LAMBDA n : Nodes[n].type \in types)
          IN [threw |-> FALSE,
              node |-> IF index + 1 \in 1..Len(nodeList) THEN nodeList[index + 1] ELSE Null]

functionNodeFromLine(pathToFile, lineNumber, functionIndex) ==
  nodeByLineFilterIndex(pathToFile, lineNumber, functionIndex, FunctionTypes)

\* The paths, lines and types a caller asks for: the files of the program and one
\* that was never appended, the lines of the buffer and one on either side.
LookupPaths == {Fragments[k].pathToFile : k \in 1..Len(Fragments)} \cup {"404.js"}
LookupLines == 0..(Len(parsingBuffer) + 1)
LookupTypes == {"CallExpression", "Identifier"}

NodeByLineFilterIndexCall(pathToFile, lineNumber, index, type) ==
  /\ phase = "ready"
  /\ called' = [op |-> "nodeByLineFilterIndex", pathToFile |-> pathToFile,
                lineNumber |-> lineNumber, index |-> index, types |-> {type},
                result |-> nodeByLineFilterIndex(pathToFile, lineNumber, index, {type})]
  /\ UNCHANGED <<prog, htmlVars, configVars, bufVars, mainVars>>

FunctionNodeFromLineCall(pathToFile, lineNumber, functionIndex) ==
  /\ phase = "ready"
  /\ called' = [op |-> "functionNodeFromLine", pathToFile |-> pathToFile,
                lineNumber |-> lineNumber, index |-> functionIndex,
                types |-> FunctionTypes,
                result |-> functionNodeFromLine(pathToFile, lineNumber, functionIndex)]
  /\ UNCHANGED <<prog, htmlVars, configVars, bufVars, mainVars>>

\* driver.getNodeName(node), for any node of the tree.
GetNodeNameCall(node) ==
  /\ phase = "ready"
  /\ called' = [op |-> "getNodeName", node |-> node, result |-> getNodeName(node)]
  /\ UNCHANGED <<prog, htmlVars, configVars, bufVars, mainVars>>

\* A parsed driver, asked for nodes and names.
NextLookup ==
  \/ AppendProgramSource
  \/ ParseSources
  \/ Pass1Enter
  \/ Pass1Leave
  \/ Pass2Enter
  \/ Pass2Leave
  \/ \E p \in LookupPaths, l \in LookupLines, k \in 0..MaxIndex, type \in LookupTypes :
       NodeByLineFilterIndexCall(p, l, k, type)
  \/ \E p \in LookupPaths, l \in LookupLines, k \in 0..MaxIndex :
       FunctionNodeFromLineCall(p, l, k)
  \/ \E node \in NodeIds : GetNodeNameCall(node)

SpecLookup == Init /\ [][NextLookup]_vars

\* ----------------------------------------------------------- configuration
MaxIgnoreLine == 3

\* Array.prototype.indexOf, from 0
IndexOf(list, value) ==
  IF Has(list, value)
    THEN (CHOOSE k \in 1..Len(list) : list[k] = value /\ \A j \in 1..(k - 1) : list[j] # value) - 1
  ELSE -1

\* indexOfNodeOnLine(node)
indexOfNodeOnLine(node) ==
  LET key == <<nodeFile[node], nodeLine[node]>>
  IN IF key \notin DOMAIN nodesByLine THEN [threw |-> TRUE, index |-> Undefined]
     ELSE [threw |-> FALSE,
           index |-> IndexOf(SelectSeq(nodesByLine[key],
                                       LAMBDA n : Nodes[n].type = Nodes[node].type), node)]

\* this.ignoredNodes in insertion order.  The driver that writes a configuration has
\* marked one node at most; the driver that reads one marks the nodes of config.ignore
\* in order.
IgnoredList ==
  IF stage = "original" THEN InOrder(ignoredNodes)
  ELSE LET found == [k \in 1..Len(config.ignore) |->
                       nodeByLineFilterIndex(config.ignore[k].path, config.ignore[k].line,
                                             config.ignore[k].index,
                                             {config.ignore[k].type}).node]
       IN SelectSeq([k \in 1..Len(found) |->
                       IF \E j \in 1..(k - 1) : found[j] = found[k] THEN Undefined
                       ELSE found[k]],
                    LAMBDA n : n # Undefined /\ n \in ignoredNodes)

\* Array.from(this.sources): a path is registered when its file reaches the buffer,
\* so the order is the one of the line mapping.
SourcesList ==
  SelectSeq([k \in 1..Len(lineMapping) |->
               IF \E j \in 1..(k - 1) : lineMapping[j].pathToFile = lineMapping[k].pathToFile
                 THEN ""
               ELSE lineMapping[k].pathToFile],
            LAMBDA pathToFile : pathToFile \in sources)

\* getConfiguration(startAsync), of a driver without a cached configuration
getConfiguration(startAsync) ==
  LET nodeList == SelectSeq(nodesByLine[<<nodeFile[startAsync], nodeLine[startAsync]>>],
                            isFunctionNode)
      ignored == IgnoredList
  IN [type |-> "javascript",
      root |-> RootDir,
      scripts |-> SourcesList,
      ignore |-> [k \in 1..Len(ignored) |->
                    [path |-> nodeFile[ignored[k]], line |-> nodeLine[ignored[k]],
                     type |-> Nodes[ignored[k]].type,
                     index |-> indexOfNodeOnLine(ignored[k]).index]],
      markAsync |-> [path |-> nodeFile[startAsync], line |-> nodeLine[startAsync],
                     functionIndex |-> IndexOf(nodeList, startAsync)]]

\* serializeNode(node)
serializeNode(node) ==
  [file |-> nodeFile[node], line |-> nodeLine[node], type |-> Nodes[node].type,
   index |-> indexOfNodeOnLine(node).index,
   accessor |-> node \in accessorNodes, constructor |-> node \in constructorFunctions]

\* MarkdownSerializer with the option nested: a line of the text is a record.
\* scheduledNodes holds the entries of the map, which no asyncNode is, so it stops
\* nothing: appendNodes of a key that is on the call stack already repeats what led
\* to it without end, and the call stack overflows (a RangeError); every other map is
\* written out to its last level, however deep.  stack is the keys of the appendNodes
\* calls that have not returned.
RangeError == [error |-> "RangeError"]
TypeError == [error |-> "TypeError"]
ThrownBy(name) == IF name = NullNodeType THEN TypeError ELSE [error |-> "Error"]
IsNode(node) == node # Null /\ node # Undefined
RECURSIVE appendNodes(_, _, _)
RECURSIVE serializeChildData(_, _, _)
serializeChildData(indent, childData, stack) ==
  LET awaitNode == childData.awaitNode
      asyncNode == childData.asyncNode
      asyncName == IF IsNode(asyncNode) THEN getNodeName(asyncNode)
                   ELSE IF IsNode(awaitNode) THEN getNodeName(awaitNode)
                   ELSE ""
      line == [indent |-> indent,
               asyncName |-> asyncName,
               await |-> IF IsNode(awaitNode) THEN <<serializeNode(awaitNode)>> ELSE <<>>,
               async |-> IF IsNode(asyncNode) THEN <<serializeNode(asyncNode)>> ELSE <<>>]
  IN IF IsThrown(asyncName) THEN <<ThrownBy(asyncName)>>
     ELSE IF IsNode(asyncNode) /\ asyncNode \in DOMAIN asyncReferences.refs
       THEN <<line>> \o appendNodes(indent + 1, asyncNode, stack)
     ELSE <<line>>
appendNodes(indent, key, stack) ==
  IF key \in stack THEN <<RangeError>>
  ELSE LET childData == asyncReferences.refs[key]
           RECURSIVE From(_)
           From(k) == IF k > Len(childData) THEN <<>>
                      ELSE serializeChildData(indent, childData[k], stack \cup {key})
                             \o From(k + 1)
       IN From(1)

\* appendIgnoredNodes(): serializeNode of a null that markIgnored was given reads
\* a property of null.
appendIgnoredNodes ==
  [k \in 1..Len(IgnoredList) |->
     IF IgnoredList[k] = Null THEN TypeError
     ELSE [ignored |-> serializeNode(IgnoredList[k])]]

\* serialize(): the text, or the error that ended it.
serialize ==
  LET text == appendNodes(0, Null, {}) \o appendIgnoredNodes
      errors == {k \in 1..Len(text) : "error" \in DOMAIN text[k]}
  IN IF errors = {} THEN text
     ELSE <<text[CHOOSE k \in errors : \A j \in errors : k <= j]>>

\* The programs whose files have a table for every order they can be read in.
ConfigProgs ==
  {q \in ProgIds :
     LET files == Programs[q].fragments
     IN \/ Len(files) = 1
        \/ /\ Len(files) = 2
           /\ \E r \in ProgIds : Programs[r].fragments = <<files[2], files[1]>>}

\* The test's loop over the scripts: the next file of the program, once the one before
\* it is in the buffer.
OriginalAppendJSFile ==
  /\ stage = "original"
  /\ phase = "append"
  /\ ReadsInFlight = 0
  /\ Len(lineMapping) < Len(Fragments)
  /\ AppendJSFileCall(Fragments[Len(lineMapping) + 1].pathToFile)

OriginalParseSources == stage = "original" /\ ReadsInFlight = 0 /\ ParseSources

\* markIgnored, once, before the configuration is written.
OriginalMarkIgnored(node) ==
  /\ stage = "original"
  /\ config.type = "none"
  /\ ignoredNodes = {}
  /\ MarkIgnored(node)

\* driver.getConfiguration(startAsync)
GetConfigurationCall(startAsync) ==
  /\ stage = "original"
  /\ phase = "ready"
  /\ results = <<>>
  /\ config.type = "none"
  /\ startAsync \in Seeds
  /\ config' = getConfiguration(startAsync)
  /\ original' = [startAsync |-> startAsync]
  /\ UNCHANGED <<prog, htmlVars, called, adjustments, stage, bufVars, mainVars>>

\* driver.getAsyncStacks(startAsync)
OriginalGetAsyncStacks ==
  /\ stage = "original"
  /\ config.type # "none"
  /\ results = <<>>
  /\ GetAsyncStacks(original.startAsync)

\* What --ignore names: a call on one of the first lines of a file.
NewIgnores ==
  {[path |-> pathToFile, line |-> line, type |-> "CallExpression", index |-> 0] :
     pathToFile \in DOMAIN FileSystem, line \in 1..MaxIgnoreLine}

\* The second argument: none (the test's call, a record without newIgnore here), and
\* { newIgnore: args.ignore } of the configuration subcommand, where args.ignore is
\* null without --ignore (NotGiven) and what --ignore names with it.
NoAdjustments == [caller |-> "test"]
NotGiven == [value |-> "null"]
Adjustments ==
  {NoAdjustments, [newIgnore |-> NotGiven]} \cup
    {[newIgnore |-> newIgnore] : newIgnore \in NewIgnores}

\* The first driver's text is kept; a new driver is built and analyzeByConfiguration
\* runs up to the await of Promise.all: appendJSFile of every script has started its
\* read (no path is registered yet).
AnalyzeByConfigurationCall(adj) ==
  /\ stage = "original"
  /\ phase = "ready"
  /\ results # <<>>
  /\ ~results[1].threw
  /\ original' = [startAsync |-> serializeNode(original.startAsync),
                  ignored |-> {serializeNode(n) : n \in ignoredNodes},
                  serialized |-> serialize,
                  config |-> config,
                  prog |-> prog]
  /\ adjustments' = adj
  /\ stage' = "configured"
  /\ reading' = [p \in DOMAIN FileSystem |->
                   Cardinality({k \in 1..Len(config.scripts) : config.scripts[k] = p})]
  /\ outcome' = "reading"
  /\ sources' = {}
  /\ parsingBuffer' = <<>>
  /\ lineMapping' = <<>>
  /\ appended' = <<>>
  /\ ast' = [nodes |-> <<>>, scopes |-> <<>>, acquire |-> <<>>]
  /\ phase' = "append"
  /\ path' = <<>>
  /\ next' = 1
  /\ mappingList' = <<>>
  /\ nodeFile' = <<>>
  /\ nodeLine' = <<>>
  /\ nodesByLine' = <<>>
  /\ currentScope' = Null
  /\ nodeToScope' = <<>>
  /\ valueNodeToKeyNode' = <<>>
  /\ accessorNodes' = {}
  /\ prototypeStack' = <<>>
  /\ nodeToConstructorFunction' = <<>>
  /\ constructorFunctions' = {}
  /\ callsByName' = <<>>
  /\ referencesByName' = <<>>
  /\ functionStack' = <<>>
  /\ nodeToEnclosingFunction' = <<>>
  /\ memberNodesInScope' = <<>>
  /\ awaitCount' = 0
  /\ nodesInAwaitCall' = {}
  /\ ignoredNodes' = {}
  /\ functionNode' = Null
  /\ asyncReferences' = [keys |-> <<>>, refs |-> <<>>]
  /\ markedAsyncNodes' = <<>>
  /\ scheduledAsyncNodes' = <<>>
  /\ i' = 1
  /\ awaitNodesCalls' = <<>>
  /\ results' = <<>>
  /\ UNCHANGED <<prog, htmlVars, called, config>>

\* The buffer as appendSource calls
BufferFragments ==
  [k \in 1..Len(lineMapping) |->
     [pathToFile |-> lineMapping[k].pathToFile,
      firstLineInFile |-> lineMapping[k].firstLineInFile,
      source |-> appended[k]]]

\* Every read has completed: this.parseSources() of what is in the buffer.
ConfiguredParseSources ==
  /\ stage = "configured"
  /\ ReadsInFlight = 0
  /\ \E q \in ProgIds :
       /\ Programs[q].fragments = BufferFragments
       /\ prog' = q
       /\ ParseSourcesOf(q)

\* The nodes config.ignore names, from the first on: a line without nodes throws.
RECURSIVE MarkConfigured(_, _)
MarkConfigured(ignore, marked) ==
  IF ignore = <<>> THEN [threw |-> FALSE, ignoredNodes |-> marked]
  ELSE LET r == nodeByLineFilterIndex(ignore[1].path, ignore[1].line, ignore[1].index,
                                      {ignore[1].type})
       IN IF r.threw THEN [threw |-> TRUE, ignoredNodes |-> marked]
          ELSE MarkConfigured(Tail(ignore), marked \cup {r.node})

\* analyzeByConfiguration after parseSources, up to the call of getAsyncStacks: the
\* nodes of config.ignore are marked, then the one of adjustments.newIgnore, which
\* is pushed to config.ignore; then the seed is looked up.  A seed of null goes on to
\* getAsyncStacks(null), which is not followed here.
ApplyConfiguration ==
  /\ stage = "configured"
  /\ phase = "ready"
  /\ LET marked == MarkConfigured(config.ignore, ignoredNodes)
         named == "newIgnore" \in DOMAIN adjustments
         newIgnore == adjustments.newIgnore
         ignorable == nodeByLineFilterIndex(newIgnore.path, newIgnore.line, newIgnore.index,
                                            {newIgnore.type})
         startAsync == functionNodeFromLine(config.markAsync.path, config.markAsync.line,
                                            config.markAsync.functionIndex)
     IN IF marked.threw
          THEN /\ stage' = "Error"
               /\ ignoredNodes' = marked.ignoredNodes
               /\ UNCHANGED config
        ELSE IF named /\ newIgnore = NotGiven
          THEN /\ stage' = "TypeError"
               /\ ignoredNodes' = marked.ignoredNodes
               /\ UNCHANGED config
        ELSE IF named /\ ignorable.threw
          THEN /\ stage' = "Error"
               /\ ignoredNodes' = marked.ignoredNodes
               /\ UNCHANGED config
        ELSE /\ ignoredNodes' = marked.ignoredNodes \cup
                                  (IF named THEN {ignorable.node} ELSE {})
             /\ config' = IF named THEN [config EXCEPT !.ignore = Append(@, newIgnore)]
                          ELSE config
             /\ stage' = IF startAsync.threw THEN "Error"
                         ELSE IF startAsync.node = Null THEN "seedless"
                         ELSE "marked"
  /\ UNCHANGED <<prog, htmlVars, called, adjustments, original, bufVars, parseVars, asyncVars>>

\* this.getAsyncStacks(startAsync)
ConfiguredGetAsyncStacks ==
  /\ stage = "marked"
  /\ results = <<>>
  /\ GetAsyncStacks(functionNodeFromLine(config.markAsync.path, config.markAsync.line,
                                         config.markAsync.functionIndex).node)

\* getAsyncStacks has returned or thrown: the configuration is cached and
\* analyzeByConfiguration returns, or it throws as well.
AnalyzeByConfigurationReturn ==
  /\ stage = "marked"
  /\ phase = "ready"
  /\ results # <<>>
  /\ stage' = IF results[1].threw THEN "Error" ELSE "done"
  /\ UNCHANGED <<prog, htmlVars, called, config, adjustments, original, bufVars, mainVars>>

InitConfigured ==
  /\ prog \in ConfigProgs
  /\ InitTools
  /\ InitBuffer
  /\ InitParse
  /\ InitAsync

NextConfigured ==
  \/ OriginalAppendJSFile
  \/ \E p \in DOMAIN FileSystem : AppendJSFileRead(p)
  \/ OriginalParseSources
  \/ Pass1Enter
  \/ Pass1Leave
  \/ Pass2Enter
  \/ Pass2Leave
  \/ \E node \in NodeIds : OriginalMarkIgnored(node)
  \/ \E startAsync \in NodeIds : GetConfigurationCall(startAsync)
  \/ OriginalGetAsyncStacks
  \/ GetAsyncStacksLoop
  \/ GetAsyncStacksReturn
  \/ \E adj \in Adjustments : AnalyzeByConfigurationCall(adj)
  \/ ConfiguredParseSources
  \/ ApplyConfiguration
  \/ ConfiguredGetAsyncStacks
  \/ AnalyzeByConfigurationReturn

SpecConfigured == InitConfigured /\ [][NextConfigured]_vars

\* ------------------------------------------------- the returned map, read
\* getAsyncStacks has just returned asyncReferences.
Returned == phase = "ready" /\ results # <<>> /\ ~results[Len(results)].threw
Range(list) == {list[k] : k \in 1..Len(list)}
Keys == asyncReferences.keys
EdgesUnder(key) == Range(asyncReferences.refs[key])
FunctionKeys == Range(Keys) \ {Null}
EnclosingFunction(node) ==
  IF node \in DOMAIN nodeToEnclosingFunction THEN nodeToEnclosingFunction[node]
  ELSE Undefined
RECURSIVE NearestFunctionAbove(_)
\* The nearest function among the proper ancestors of a node in the tree.
NearestFunctionAbove(node) ==
  LET parent == Nodes[node].parent
  IN IF parent = Null THEN Undefined
     ELSE IF isFunctionNode(parent) THEN parent
     ELSE NearestFunctionAbove(parent)
IndexedUnder(map, name) == IF name \in DOMAIN map THEN Range(map[name]) ELSE {}
\* The calls that parseSources indexed under the name.
ParsedCalls(name) ==
  {n \in IndexedUnder(callsByName, name) :
     Nodes[n].type \in {"CallExpression", "NewExpression"}}
\* The members this.name of the constructor associated with f.
ConstructorMembers(f) ==
  IF /\ f \in DOMAIN nodeToConstructorFunction
     /\ nodeToConstructorFunction[f] \in DOMAIN memberNodesInScope
    THEN {n \in Range(memberNodesInScope[nodeToConstructorFunction[f]]) :
            getNodeName(n) = getNodeName(f)}
  ELSE {}
\* The await candidates of f, from the indexes as parseSources left them.
AwaitCandidates(f) ==
  {n \in NodeIds :
     /\ n \notin nodesInAwaitCall
     /\ ScopeReaches(nodeToScope[n], nodeToScope[f])
     /\ \/ n \in ParsedCalls(getNodeName(f))
        \/ f \in accessorNodes /\ n \in IndexedUnder(referencesByName, getNodeName(f))
        \/ n \in ConstructorMembers(f)}

\* --------------------------------------------------------------------- C1
\* C1: when getAsyncStacks has returned, propagation is closed: for every edge whose
\* await node has a nearest enclosing function p (the nearest function around it in the
\* source) that is not ignored, p was processed by the worklist, every await candidate
\* of p that is not ignored is the await node of an edge under key p, and p is a key
\* when it has a candidate at all.
PropagationClosed ==
  Returned =>
    \A key \in Range(Keys) : \A e \in EdgesUnder(key) :
      e.awaitNode # Undefined =>
        LET p == NearestFunctionAbove(e.awaitNode)
        IN (p # Undefined /\ p \notin ignoredNodes) =>
             /\ p \in Range(awaitNodesCalls)
             /\ AwaitCandidates(p) # {} => p \in FunctionKeys
             /\ \A c \in AwaitCandidates(p) \ ignoredNodes :
                  /\ p \in FunctionKeys
                  /\ \E e2 \in EdgesUnder(p) : e2.awaitNode = c

\* --------------------------------------------------------------------- C2
\* C2: under every function key f of the returned map, every edge's await node has
\* f's derived name, or is a this-member of f's constructor with that name; it is not
\* in nodesInAwaitCall; and its recorded scope is f's recorded scope or below it.
EdgesAreCandidates ==
  Returned =>
    \A f \in FunctionKeys : \A e \in EdgesUnder(f) :
      /\ \/ getNodeName(e.awaitNode) = getNodeName(f)
         \/ e.awaitNode \in ConstructorMembers(f)
      /\ e.awaitNode \notin nodesInAwaitCall
      /\ ScopeReaches(nodeToScope[e.awaitNode], nodeToScope[f])

\* A method's key holds a call and a this-member of its constructor, while a call of
\* the same name inside an await expression was left out.
EdgesAreCandidatesWitness ==
  /\ Returned
  /\ \E f \in FunctionKeys :
       /\ \E e \in EdgesUnder(f) : Nodes[e.awaitNode].type = "CallExpression"
       /\ \E e \in EdgesUnder(f) : e.awaitNode \in ConstructorMembers(f)
       /\ \E n \in ParsedCalls(getNodeName(f)) \cap nodesInAwaitCall :
            \A e \in EdgesUnder(f) : e.awaitNode # n

\* --------------------------------------------------------------------- C3
\* C3: ignored nodes are dead ends.  During and after getAsyncStacks no edge has an
\* ignored await node; no ignored function is a key, the asyncNode of an edge other
\* than the root's, on the worklist other than as the seed, or an argument of
\* getAwaitNodes; and every function on the worklist other than the seed encloses the
\* await node of a recorded edge, which is not ignored.
IgnoredAreDeadEnds ==
  phase \in {"running", "ready"} /\ functionNode # Null =>
    /\ \A key \in Range(Keys) : \A e \in EdgesUnder(key) :
         /\ e.awaitNode \notin ignoredNodes
         /\ key # Null => e.asyncNode \notin ignoredNodes
    /\ FunctionKeys \cap ignoredNodes = {}
    /\ Range(awaitNodesCalls) \cap ignoredNodes = {}
    /\ \A k \in 2..Len(markedAsyncNodes) :
         /\ markedAsyncNodes[k] \notin ignoredNodes
         /\ \E key \in Range(Keys) : \E e \in EdgesUnder(key) :
              /\ e.awaitNode # Undefined
              /\ EnclosingFunction(e.awaitNode) = markedAsyncNodes[k]

\* An ignored call is a candidate of a processed function, and the function around
\* the ignored call did not get onto the worklist.
IgnoredAreDeadEndsWitness ==
  /\ Returned
  /\ \E f \in FunctionKeys : \E n \in AwaitCandidates(f) \cap ignoredNodes :
       /\ EnclosingFunction(n) # Undefined
       /\ EnclosingFunction(n) \notin Range(markedAsyncNodes)

\* --------------------------------------------------------------------- C4
\* C4: two getAsyncStacks calls with the same seed on the same parsed driver return
\* the same map: the same keys in the same order, the same edges in the same order.
SameSeedSameMap ==
  \A a, b \in 1..Len(results) :
    (/\ results[a].functionNode = results[b].functionNode
     /\ ~results[a].threw
     /\ ~results[b].threw)
      => results[a].asyncReferences = results[b].asyncReferences

\* --------------------------------------------------------------------- C5
RECURSIVE IsWithin(_, _)
\* The node is the ancestor or below it in the tree.
IsWithin(node, ancestor) ==
  \/ node = ancestor
  \/ node # Null /\ Nodes[node].parent # Null /\ IsWithin(Nodes[node].parent, ancestor)
\* The nodes that open a lexical scope: the program, functions, and the blocks that
\* are not the body of a function.
OpensScope(node) ==
  \/ Nodes[node].parent = Null
  \/ isFunctionNode(node)
  \/ Nodes[node].type = "BlockStatement" /\ ~isFunctionNode(Nodes[node].parent)
RECURSIVE ScopeOpenerAbove(_)
\* The node of the innermost lexical scope around a node.
ScopeOpenerAbove(node) ==
  IF OpensScope(Nodes[node].parent) THEN Nodes[node].parent
  ELSE ScopeOpenerAbove(Nodes[node].parent)
\* Another function has the seed's name and is defined in another scope.
NameIsShared(seed) ==
  \E f \in Seeds :
    /\ f # seed
    /\ getNodeName(f) = getNodeName(seed)
    /\ ScopeOpenerAbove(f) # ScopeOpenerAbove(seed)

\* C5: when another function of the seed's name is defined in a different scope, the
\* edges under the seed are all for references that lie within the scope the seed is
\* defined in, and the functions put on the worklist for them lie within it too.
SeedScopeIsolation ==
  (Returned /\ NameIsShared(functionNode) /\ functionNode \in FunctionKeys) =>
    \A e \in EdgesUnder(functionNode) :
      /\ IsWithin(e.awaitNode, ScopeOpenerAbove(functionNode))
      /\ e.asyncNode \notin {Null, Undefined} =>
           IsWithin(e.asyncNode, ScopeOpenerAbove(functionNode))

\* --------------------------------------------------------------------- C6
\* The function a definition gives a name: the declared function itself, or the
\* function expression a variable is initialised with.
FunctionOf(definition) ==
  IF definition = Undefined THEN Undefined
  ELSE IF isFunctionNode(definition) THEN definition
  ELSE IF /\ Nodes[definition].type = "VariableDeclarator"
          /\ \E c \in ChildrenOf(definition) :
               c # Kid(definition, "id") /\ isFunctionNode(c)
    THEN CHOOSE c \in ChildrenOf(definition) : c # Kid(definition, "id") /\ isFunctionNode(c)
  ELSE Undefined
\* The function that the name at refNode resolves to through the scope chain.
ResolvesTo(refNode) == FunctionOf(getConstructorFunctionIn(valueNodeToKeyNode, refNode))
\* The constructors X a method is attached to, by X.prototype.m = function or by
\* X.prototype = { m: function }.
ConstructorsOf(method) ==
  {X \in Seeds :
     \/ \E a \in NodeIds :
          /\ isPrototypeAssignMethod(a)
          /\ Kid(a, "right") = method
          /\ ResolvesTo(Kid(Kid(Kid(a, "left"), "object"), "object")) = X
     \/ \E a \in NodeIds : \E pr \in NodeIds :
          /\ Nodes[a].type = "AssignmentExpression"
          /\ isPrototypeMember(Kid(a, "left"))
          /\ Nodes[pr].type = "Property"
          /\ Nodes[pr].parent = Kid(a, "right")
          /\ Kid(pr, "value") = method
          /\ ResolvesTo(Kid(Kid(a, "left"), "object")) = X}
\* The property identifiers of the this.name in the body of X.
ThisMembers(X, name) ==
  {n \in NodeIds :
     /\ Nodes[n].type = "Identifier"
     /\ Nodes[n].name = name
     /\ isMemberThis(Nodes[n].parent)
     /\ Kid(Nodes[n].parent, "property") = n
     /\ EnclosingFunction(n) = X}
IsInstantiated(X) ==
  \E n \in NodeIds : Nodes[n].type = "NewExpression" /\ ResolvesTo(Kid(n, "callee")) = X

\* C6: with nothing ignored, when a method m attached to a constructor X through X's
\* prototype was processed and the body of X has this.m outside any await, the
\* property identifier of that this.m is an await node under m with asyncNode X, X
\* was processed in turn, and isAsyncSyntaxError(X) holds when new X occurs.
ConstructorReached ==
  (Returned /\ ignoredNodes = {}) =>
    \A m \in Range(awaitNodesCalls) : \A X \in ConstructorsOf(m) :
      \A n \in ThisMembers(X, getNodeName(m)) \ nodesInAwaitCall :
        /\ m \in FunctionKeys
        /\ \E e \in EdgesUnder(m) :
             /\ e.awaitNode = n
             /\ e.asyncNode = IF Nodes[X].async THEN Null ELSE X
        /\ X \in Range(awaitNodesCalls)
        /\ IsInstantiated(X) => isAsyncSyntaxError(X)

\* --------------------------------------------------------------------- C7
\* The seed is a method of an object literal: the value of a property with an
\* identifier for its key.
IsLiteralMethod(f) ==
  /\ Nodes[Nodes[f].parent].type = "Property"
  /\ Kid(Nodes[f].parent, "value") = f
  /\ Nodes[Nodes[Nodes[f].parent].parent].type = "ObjectExpression"
  /\ Nodes[Kid(Nodes[f].parent, "key")].type = "Identifier"
LiteralMethodName(f) == Nodes[Kid(Nodes[f].parent, "key")].name
IsThisCall(node) ==
  /\ Nodes[node].type = "CallExpression"
  /\ isMemberThis(Kid(node, "callee"))
\* this.name(), this.name, or the name in this.name.
IsThisQualified(node) ==
  \/ IsThisCall(node)
  \/ isMemberThis(node)
  \/ /\ Nodes[node].type = "Identifier"
     /\ isMemberThis(Nodes[node].parent)
     /\ Kid(Nodes[node].parent, "property") = node
\* The calls by the name that are no value of an assignment or property, outside any
\* await, not ignored, within scope reach of f.
ReachedCalls(f, name) ==
  {n \in NodeIds :
     /\ Nodes[n].type = "CallExpression"
     /\ n \notin DOMAIN valueNodeToKeyNode
     /\ Nodes[Kid(n, "callee")].type \in {"Identifier", "MemberExpression"}
     /\ Nodes[IF Nodes[Kid(n, "callee")].type = "Identifier" THEN Kid(n, "callee")
              ELSE Kid(Kid(n, "callee"), "property")].type = "Identifier"
     /\ Nodes[IF Nodes[Kid(n, "callee")].type = "Identifier" THEN Kid(n, "callee")
              ELSE Kid(Kid(n, "callee"), "property")].name = name
     /\ n \notin nodesInAwaitCall
     /\ n \notin ignoredNodes
     /\ ScopeReaches(nodeToScope[n], nodeToScope[f])}

\* C7: seeding a method c of an object literal marks its this.c call sites and their
\* enclosing functions, and no edge is for a reference that is not this-qualified,
\* such as a call of a free function c.
LiteralMethodOnlyThisCalls ==
  (Returned /\ IsLiteralMethod(functionNode) /\ functionNode \notin ignoredNodes) =>
    /\ \A n \in ReachedCalls(functionNode, LiteralMethodName(functionNode)) :
         IsThisCall(n) => \E e \in EdgesUnder(functionNode) : e.awaitNode = n
    /\ functionNode \in FunctionKeys =>
         \A e \in EdgesUnder(functionNode) : IsThisQualified(e.awaitNode)

\* --------------------------------------------------------------------- C8
\* The places on the worklist of the functions whose key holds an edge that has the
\* function at place k around its await node.
SchedulersOf(k) ==
  {j \in 1..Len(markedAsyncNodes) :
     /\ markedAsyncNodes[j] \in FunctionKeys
     /\ \E e \in EdgesUnder(markedAsyncNodes[j]) :
          EnclosingFunction(e.awaitNode) = markedAsyncNodes[k]}
FirstScheduler(k) == CHOOSE j \in SchedulersOf(k) : \A h \in SchedulersOf(k) : j <= h

\* C8: the worklist is first-in first-out.  It holds the functions in the order they
\* were first scheduled; the functions handed to getAwaitNodes are those before the
\* loop index that are not ignored, in that order; the keys after the root's are
\* among them, in that order; and a function scheduled by an earlier function comes
\* before one scheduled by a later function (breadth first).
WorklistIsFIFO ==
  (phase = "running" \/ Returned) =>
    /\ markedAsyncNodes = scheduledAsyncNodes
    /\ awaitNodesCalls =
         SelectSeq(SubSeq(markedAsyncNodes, 1, i - 1), LAMBDA f : f \notin ignoredNodes)
    /\ Keys = <<Null>> \o SelectSeq(awaitNodesCalls, LAMBDA f : f \in FunctionKeys)
    /\ \A a, b \in 2..Len(markedAsyncNodes) :
         a < b => FirstScheduler(a) <= FirstScheduler(b)

\* The seed scheduled two functions and the first of them a third, which is last.
WorklistIsFIFOWitness ==
  /\ Returned
  /\ Len(markedAsyncNodes) >= 4
  /\ FirstScheduler(2) = 1
  /\ FirstScheduler(3) = 1
  /\ FirstScheduler(4) = 2
  /\ Len(Keys) = 4

\* --------------------------------------------------------------------- C9
\* The number of lines of a text: one more than its line breaks.
LineCount(text) == 1 + Cardinality({k \in 1..Len(text) : text[k] = NL})

RECURSIVE SumLineCounts(_)
SumLineCounts(texts) ==
  IF texts = <<>> THEN 0 ELSE LineCount(Head(texts)) + SumLineCounts(Tail(texts))

\* C9: the line mapping's entries are contiguous and do not overlap: every buffer line
\* lies in exactly one entry [startSourceLine, endSourceLine), and the buffer has as
\* many lines as the appended fragments have together.
LineMapContiguous ==
  /\ \A L \in 1..Len(parsingBuffer) :
       Cardinality({k \in 1..Len(lineMapping) :
                      /\ lineMapping[k].startSourceLine <= L
                      /\ L < lineMapping[k].endSourceLine}) = 1
  /\ Len(parsingBuffer) = SumLineCounts(appended)

\* b.js was appended before a.js, then a fragment of several lines directly.
LineMapContiguousWitness ==
  /\ Len(lineMapping) = 3
  /\ lineMapping[1].pathToFile = "b.js"
  /\ lineMapping[2].pathToFile = "a.js"
  /\ lineMapping[3].pathToFile = "inline"
  /\ Len(parsingBuffer) = 6

\* -------------------------------------------------------------------- C10
\* The entries of the line mapping that hold a buffer line.
EntriesHolding(L) ==
  {k \in 1..Len(lineMapping) :
     lineMapping[k].startSourceLine <= L /\ L < lineMapping[k].endSourceLine}
Occurrences(list, value) == Cardinality({k \in 1..Len(list) : list[k] = value})

\* C10: once the first traversal of parseSources is over, every node carries the path
\* of the one line-mapping entry that holds the buffer line it starts on, and the line
\* (buffer line - startSourceLine + firstLineInFile); and it is once in the
\* nodesByLine list of that file and line, the list being in visiting order.
NodeOriginsMatch ==
  phase \in {"pass2", "ready", "running"} =>
    \A n \in NodeIds :
      \E k \in EntriesHolding(Nodes[n].line) :
        LET file == lineMapping[k].pathToFile
            line == Nodes[n].line - lineMapping[k].startSourceLine
                      + lineMapping[k].firstLineInFile
        IN /\ nodeFile[n] = file
           /\ nodeLine[n] = line
           /\ <<file, line>> \in DOMAIN nodesByLine
           /\ Occurrences(nodesByLine[<<file, line>>], n) = 1
           /\ \A a, b \in 1..Len(nodesByLine[<<file, line>>]) :
                a < b => nodesByLine[<<file, line>>][a] < nodesByLine[<<file, line>>][b]

\* ---------------------------------------------------------- HTMLParseDriver
\* this.fullRoot, and the symbol that stands for a place outside of it.
FullRoot == pathResolve(<<Cwd, RootDir>>)
outside == <<"Symbol(outside the project root)">>

\* resolveURI(baseHref, relativePath)
resolveURI(baseHref, relativePath) ==
  LET fullAbsolutePath == pathJoin(<<FullRoot, baseHref, relativePath>>)
  IN IF startsWith(fullAbsolutePath, FullRoot)
       THEN substr(fullAbsolutePath, Len(FullRoot) + 1)
     ELSE outside

\* The base hrefs and the relative paths of script sources in a page: up to MaxSegments
\* segments, each the parent directory, a directory a, d (the root's name) or d2, or a
\* file.
BaseHrefs == {<<>>, <<"b", Sep>>}
PathSegments == {<<"..">>, <<"a">>, <<"d">>, <<"d", "2">>, <<"a.js">>}
RelativePaths ==
  {JoinWith(segs, <<Sep>>) :
     segs \in UNION {[1..n -> PathSegments] : n \in 1..MaxSegments}}

ResolveURICall(baseHref, relativePath) ==
  /\ called' = [op |-> "resolveURI", baseHref |-> baseHref, relativePath |-> relativePath,
                result |-> resolveURI(baseHref, relativePath)]
  /\ UNCHANGED <<prog, htmlVars, configVars, bufVars, mainVars>>

NextURI == \E baseHref \in BaseHrefs, relativePath \in RelativePaths :
             ResolveURICall(baseHref, relativePath)

SpecURI == InitBuf /\ [][NextURI]_vars

\* --------------------------------------------------------------- HTMLDriver
\* lib/html.js.  A character is its UTF-16 code unit; a string is a sequence of them.
MaxLine == 2
MaxColumn == 1

\* LineAndColumn.prototype.clear
Cleared == [line |-> 0, column |-> 0, url |-> ""]

\* The characters given to checkForEventHandler: tab, line feed, space, no-break space
\* (all matched by \s); " ' . = ; a digit, @ [ _ ` { (the neighbours of the letters in
\* code order); A N O P Z a n o p z; U+0130 and U+212A, whose lower-case forms are
\* "i" followed by U+0307, and "k".
Chars ==
  {9, 10, 32, 160, 34, 39, 46, 61, 49, 64, 91, 95, 96, 123,
   65, 78, 79, 80, 90, 97, 110, 111, 112, 122, 304, 8490}

\* /\s/ of a regular expression without flags
Whitespace ==
  {9, 10, 11, 12, 13, 32, 160, 5760, 8232, 8233, 8239, 8287, 12288, 65279} \cup 8192..8202

\* String.prototype.toLowerCase of a one-character string, for the characters of Chars
toLowerCaseNone(c) == <<c>>
toLowerCase(c) ==
  IF c \in 65..90 THEN <<c + 32>>
  ELSE IF c = 304 THEN <<105, 775>>
  ELSE IF c = 8490 THEN <<107>>
  ELSE <<c>>

\* s <= t for strings: the first code unit that differs decides, then the length.
StringLE(s, t) ==
  LET common == 1..(IF Len(s) < Len(t) THEN Len(s) ELSE Len(t))
      differs == {k \in common : s[k] # t[k]}
  IN IF differs = {} THEN Len(s) <= Len(t)
     ELSE LET k == CHOOSE d \in differs : \A e \in differs : d <= e
          IN s[k] < t[k]

\* /\s/.test(s) and /\S/.test(s)
TestWhitespace(s) == \E k \in 1..Len(s) : s[k] \in Whitespace
TestNonWhitespace(s) == \E k \in 1..Len(s) : s[k] \notin Whitespace

\* ('a' <= c) && (c <= 'z')
BetweenAAndZ(s) == StringLE(<<97>>, s) /\ StringLE(s, <<122>>)

EventStates ==
  {"none", "attrReady", "o", "on", "onX", "onX+whitespace", "onEvent=", "processing",
   "invalid", "suspended"}

\* checkForEventHandler(c)
CheckForEventHandler(c) ==
  /\ called' = [op |-> "checkForEventHandler", c |-> c, eventState |-> eventState,
                scriptStart |-> scriptStart, currentLocation |-> currentLocation]
  /\ CASE eventState = "attrReady" ->
            /\ eventState' = IF c = 111 \/ c = 79 THEN "o"
                             ELSE IF TestNonWhitespace(<<c>>) THEN "invalid"
                             ELSE eventState
            /\ UNCHANGED scriptStart
       [] eventState = "o" ->
            /\ eventState' = IF c = 110 \/ c = 78 THEN "on" ELSE "invalid"
            /\ UNCHANGED scriptStart
       [] eventState = "on" ->
            /\ eventState' = IF BetweenAAndZ(toLowerCase(c)) THEN "onX" ELSE "invalid"
            /\ UNCHANGED scriptStart
       [] eventState = "onX" ->
            LET lower == toLowerCase(c)
            IN /\ eventState' = IF lower = <<61>> THEN "onEvent="
                                ELSE IF BetweenAAndZ(lower) THEN eventState
                                ELSE IF TestWhitespace(lower) THEN "onX+whitespace"
                                ELSE "invalid"
               /\ UNCHANGED scriptStart
       [] eventState = "onX+whitespace" ->
            LET lower == toLowerCase(c)
            IN /\ eventState' = IF lower = <<61>> THEN "onEvent="
                                ELSE IF TestWhitespace(lower) THEN eventState
                                ELSE "invalid"
               /\ UNCHANGED scriptStart
       [] eventState = "onEvent=" ->
            IF c = 39 \/ c = 34
              THEN /\ eventState' = "processing"
                   /\ scriptStart' = [currentLocation EXCEPT !.column = @ + 1]
            ELSE /\ eventState' = IF TestWhitespace(<<c>>) THEN eventState ELSE "invalid"
                 /\ UNCHANGED scriptStart
       [] OTHER -> UNCHANGED <<eventState, scriptStart>>
  /\ UNCHANGED <<prog, currentLocation, recording, htmlReading, configVars, bufVars, mainVars>>

\* parseHTML(lines): htmlparser2 exports Parser and no parser, so the new expression
\* of the first statement throws before the locations and the state are set.
ParseHTML ==
  /\ called' = [op |-> "parseHTML", threw |-> "TypeError"]
  /\ UNCHANGED <<prog, htmlVars, configVars, bufVars, mainVars>>

\* parseHTMLFiles(pathToStartHTML), up to its await of the page's text.
ParseHTMLFilesCall(pathToStartHTML) ==
  /\ Len(htmlReading) < MaxReads
  /\ recording' = FALSE
  /\ htmlReading' = Append(htmlReading, pathToStartHTML)
  /\ called' = [op |-> "parseHTMLFiles", threw |-> ""]
  /\ UNCHANGED <<prog, eventState, currentLocation, scriptStart, configVars, bufVars, mainVars>>

\* fs.readFile settles for the k-th pending parseHTMLFiles: the promise is rejected
\* with the error of the read when the path is no file, and with the error parseHTML
\* throws when it is one.
ParseHTMLFilesRead(k) ==
  /\ k \in 1..Len(htmlReading)
  /\ htmlReading' = SubSeq(htmlReading, 1, k - 1) \o SubSeq(htmlReading, k + 1, Len(htmlReading))
  /\ LET fullPath == pathJoin(<<Cwd, RootDir, htmlReading[k]>>)
     IN called' = [op |-> "parseHTMLFiles",
                   threw |-> IF fullPath \in PageFiles THEN "TypeError"
                             ELSE ReadError(fullPath, DOMAIN Disk \cup PageFiles)]
  /\ UNCHANGED <<prog, eventState, currentLocation, scriptStart, recording, configVars, bufVars,
                 mainVars>>

\* onopentag(name, attribs): this.locations has no attrStart, so the second statement
\* throws before the state is set.
OnOpenTag ==
  /\ called' = [op |-> "onopentag", threw |-> "TypeError"]
  /\ UNCHANGED <<prog, htmlVars, configVars, bufVars, mainVars>>

\* onopentagname(name)
OnOpenTagName ==
  /\ eventState' = "attrReady"
  /\ called' = [op |-> "onopentagname", threw |-> ""]
  /\ UNCHANGED <<prog, currentLocation, scriptStart, recording, htmlReading, configVars, bufVars,
               mainVars>>

\* onclosetag(name): for the end of a recorded script scheduleJSInline throws (it is
\* not implemented) before anything is written.
OnCloseTag(name) ==
  /\ IF recording /\ name = "script"
       THEN /\ called' = [op |-> "onclosetag", threw |-> "Error"]
            /\ UNCHANGED <<eventState, recording>>
     ELSE /\ called' = [op |-> "onclosetag", threw |-> ""]
          /\ recording' = FALSE
          /\ eventState' = "none"
  /\ UNCHANGED <<prog, currentLocation, scriptStart, htmlReading, configVars, bufVars, mainVars>>

\* ontext(text) and oncomment(text)
OnText ==
  /\ called' = [op |-> "ontext", threw |-> ""]
  /\ scriptStart' = IF recording /\ scriptStart.line = 0 THEN currentLocation
                    ELSE scriptStart
  /\ UNCHANGED <<prog, eventState, currentLocation, recording, htmlReading, configVars, bufVars,
               mainVars>>

\* onattribute(name, value): for an event handler scheduleJSInline throws (it is not
\* implemented) after the state is set.
OnAttribute ==
  /\ called' = [op |-> "onattribute",
                threw |-> IF eventState = "processing" THEN "Error" ELSE ""]
  /\ eventState' = IF eventState = "processing" THEN "suspended" ELSE "attrReady"
  /\ scriptStart' = Cleared
  /\ UNCHANGED <<prog, currentLocation, recording, htmlReading, configVars, bufVars, mainVars>>

\* A driver whose locations and state a caller has set: in any event state, reading
\* at some place of a page, with the start of a script recorded or not.
InitHTML ==
  /\ prog = 0 /\ InitBuffer /\ InitParse /\ InitAsync
  /\ called = [op |-> "none"]
  /\ InitConfig
  /\ eventState \in EventStates
  /\ currentLocation \in
       {[line |-> l, column |-> k, url |-> ""] : l \in 1..MaxLine, k \in 0..MaxColumn}
  /\ scriptStart \in {Cleared, [line |-> 1, column |-> 0, url |-> ""]}
  /\ recording \in BOOLEAN
  /\ htmlReading = <<>>

NextHTML ==
  \/ \E c \in Chars : CheckForEventHandler(c)
  \/ \E pathToStartHTML \in HTMLFiles : ParseHTMLFilesCall(pathToStartHTML)
  \/ \E k \in 1..MaxReads : ParseHTMLFilesRead(k)
  \/ ParseHTML
  \/ OnOpenTag
  \/ OnOpenTagName
  \/ \E name \in {"script", "a"} : OnCloseTag(name)
  \/ OnText
  \/ OnAttribute

SpecHTML == InitHTML /\ [][NextHTML]_vars

\* -------------------------------------------------------------------- C11
\* The appendSource calls so far with a first line below 1 or an empty text.
InvalidAppends ==
  {k \in 1..Len(lineMapping) :
     lineMapping[k].firstLineInFile < 1 \/ appended[k] = <<>>}

\* C11: appendSource fails when firstLine < 1 or the text is empty, so no such call
\* ever leaves an entry in the line mapping.
AppendSourceRejectsInvalid == InvalidAppends = {}

\* C11: appendSource accepts a first line below 1 and an empty text like any other
\* input: the call leaves one entry that carries the first line as given and spans
\* the lines of the text, the empty text being one empty line.
AppendSourceAcceptsAll ==
  \A k \in InvalidAppends :
    LET e == lineMapping[k]
    IN /\ e.endSourceLine - e.startSourceLine = LineCount(appended[k])
       /\ e.endSourceLine - 1 <= Len(parsingBuffer)
       /\ e.firstLineInFile \in InlineFirstLines
       /\ appended[k] = <<>> =>
            /\ e.endSourceLine = e.startSourceLine + 1
            /\ parsingBuffer[e.startSourceLine] = <<>>

\* An empty text was appended with first line 0, and a text of several lines after it.
AppendSourceAcceptsAllWitness ==
  /\ Len(lineMapping) >= 2
  /\ lineMapping[1].firstLineInFile = 0
  /\ appended[1] = <<>>
  /\ lineMapping[2].startSourceLine = 2
  /\ Len(appended[2]) > 1

\* -------------------------------------------------------------------- C12
\* C12: appendJSFile is idempotent per path: a call for a path that is already
\* registered completes without error and leaves the buffer, the line mapping and the
\* registered sources as they are.
AppendJSFileIdempotent ==
  [][\A p \in sources :
       AppendJSFileCall(p) =>
         /\ outcome' # "TypeError"
         /\ UNCHANGED <<parsingBuffer, lineMapping, sources>>]_vars

\* -------------------------------------------------------------------- C13
\* The files appended so far from outside the root directory.
AppendedFromOutside ==
  {k \in 1..Len(lineMapping) :
     /\ lineMapping[k].pathToFile \in DOMAIN PathText
     /\ ~IsInside(pathResolve(<<RootDir, PathText[lineMapping[k].pathToFile]>>),
                  pathResolve(<<RootDir>>))}

\* C13: appendJSFile fails for a path that resolves outside the root directory, and
\* appends nothing of it: no entry of the line mapping is for such a file, and no such
\* path gets registered.
AppendJSFileStaysInRoot ==
  /\ AppendedFromOutside = {}
  /\ \A p \in sources :
       IsInside(pathResolve(<<RootDir, PathText[p]>>), pathResolve(<<RootDir>>))

\* -------------------------------------------------------------------- C14
\* Where base href and relative path lead from the root directory.
Destination == pathJoin(<<FullRoot, called.baseHref, called.relativePath>>)

\* C14: resolveURI returns the outside symbol for every base href and relative path
\* that lead out of the root directory, and for those that lead to a place in it, also
\* by way of its parent, the path of that place from the root.
ResolveURIKeepsRoot ==
  called.op = "resolveURI" =>
    IF IsInside(Destination, FullRoot)
      THEN called.result =
             JoinWith(SubSeq(SegmentsFrom(Destination, 1, <<>>),
                             Len(SegmentsFrom(FullRoot, 1, <<>>)) + 1,
                             Len(SegmentsFrom(Destination, 1, <<>>))), <<Sep>>)
    ELSE called.result = outside

\* -------------------------------------------------------------------- C17
\* C17: once parseSources has returned, no getAsyncStacks call throws, whatever
\* function it is given and whatever nodes are ignored.
GetAsyncStacksNeverThrows ==
  \A k \in 1..Len(results) : ~results[k].threw

\* -------------------------------------------------------------------- C15
IsLookup == called.op \in {"nodeByLineFilterIndex", "functionNodeFromLine"}
\* The nodes of the wanted types that carry the file and line, in visiting order.
NodesAt(pathToFile, lineNumber, types) ==
  InOrder({n \in NodeIds : /\ nodeFile[n] = pathToFile
                           /\ nodeLine[n] = lineNumber
                           /\ Nodes[n].type \in types})
AllTypes == {Nodes[n].type : n \in NodeIds}

\* C15: locating a node fails both when the file and line have no node and when they
\* have no node of the wanted kind at the index.
LookupFailsWhenMissing ==
  IsLookup =>
    (called.result.threw <=>
       called.index + 1 \notin
         1..Len(NodesAt(called.pathToFile, called.lineNumber, called.types)))

\* C15: locating a node throws exactly when no node at all carries the file and line;
\* otherwise it returns the node of the wanted kind at the index, in visiting order,
\* and null, without an error, when there is no such node.
LookupThrowsOrNull ==
  IsLookup =>
    LET all == NodesAt(called.pathToFile, called.lineNumber, AllTypes)
        wanted == NodesAt(called.pathToFile, called.lineNumber, called.types)
    IN /\ called.result.threw <=> all = <<>>
       /\ ~called.result.threw =>
            called.result.node = IF called.index + 1 \in 1..Len(wanted)
                                   THEN wanted[called.index + 1] ELSE Null

\* A line that has nodes but no function was asked for its first function: null.
LookupThrowsOrNullWitness ==
  /\ called.op = "functionNodeFromLine"
  /\ ~called.result.threw
  /\ called.result.node = Null
  /\ called.index = 0
  /\ NodesAt(called.pathToFile, called.lineNumber, AllTypes) # <<>>

\* -------------------------------------------------------------------- C18
SupportedTypes ==
  FunctionTypes \cup
    {"Identifier", "Literal", "MemberExpression", "CallExpression", "NewExpression",
     "Property", "VariableDeclarator", "ThisExpression", "ArrayPattern", "ObjectPattern"}

\* C18: getNodeName throws for every node that is no value with a recorded key and
\* whose kind is outside the supported ones; it returns nothing for such a node.
GetNodeNameRejectsUnsupported ==
  (/\ called.op = "getNodeName"
   /\ called.node \notin DOMAIN valueNodeToKeyNode
   /\ Nodes[called.node].type \notin SupportedTypes)
    => called.result = UnknownNodeType

\* -------------------------------------------------------------------- C20
\* The characters of \w, and the letters the handler accepts in an event name.
IsWordCharacter(c) == c \in (48..57) \cup (65..90) \cup {95} \cup (97..122)
IsEventNameLetter(c) == c \in (65..90) \cup (97..122) \cup {304, 8490}
IsQuote(c) == c \in {34, 39}

\* The transition table, with the characters that continue an event name as a
\* parameter.
EventTransition(state, c, NameCharacter(_)) ==
  CASE state = "attrReady" ->
         IF c \in Whitespace THEN "attrReady" ELSE IF c \in {111, 79} THEN "o" ELSE "invalid"
    [] state = "o" -> IF c \in {110, 78} THEN "on" ELSE "invalid"
    [] state = "on" -> IF NameCharacter(c) THEN "onX" ELSE "invalid"
    [] state = "onX" ->
         IF NameCharacter(c) THEN "onX"
         ELSE IF c \in Whitespace THEN "onX+whitespace"
         ELSE IF c = 61 THEN "onEvent="
         ELSE "invalid"
    [] state = "onX+whitespace" ->
         IF c \in Whitespace THEN "onX+whitespace"
         ELSE IF c = 61 THEN "onEvent="
         ELSE "invalid"
    [] state = "onEvent=" ->
         IF c \in Whitespace THEN "onEvent="
         ELSE IF IsQuote(c) THEN "processing"
         ELSE "invalid"
    [] OTHER -> state

\* scriptStart is written on the step from "onEvent=" to "processing" and on no other;
\* the current location stays as it was.
LocationsKept ==
  /\ currentLocation = called.currentLocation
  /\ (called.eventState = "onEvent=" /\ eventState = "processing")
       \/ scriptStart = called.scriptStart
  /\ (called.eventState = "onEvent=" /\ eventState = "processing")
       => scriptStart = [currentLocation EXCEPT !.column = @ + 1]

\* C20 as stated: checkForEventHandler follows the transition table in which the
\* characters of an event name are the word characters; it writes scriptStart only on
\* the step into "processing" and never the current location.
EventHandlerWordTable ==
  called.op = "checkForEventHandler" =>
    /\ eventState = EventTransition(called.eventState, called.c, IsWordCharacter)
    /\ LocationsKept

\* C20: checkForEventHandler follows the transition table in which the characters of
\* an event name are those whose lower-case form lies between "a" and "z": the
\* letters A-Z and a-z, U+0130 and U+212A; it writes scriptStart only on the step into
\* "processing" and never the current location.
EventHandlerLetterTable ==
  called.op = "checkForEventHandler" =>
    /\ eventState = EventTransition(called.eventState, called.c, IsEventNameLetter)
    /\ LocationsKept

\* After "on", a digit was read: the state is "invalid".
EventHandlerLetterTableWitness ==
  /\ called.op = "checkForEventHandler"
  /\ called.eventState = "on"
  /\ called.c = 49
  /\ eventState = "invalid"

\* -------------------------------------------------------------------- C16
\* analyzeByConfiguration(config) has ended, by returning or by throwing.
Analyzed == stage \in {"done", "TypeError", "Error", "seedless"}
StartAsync ==
  functionNodeFromLine(config.markAsync.path, config.markAsync.line,
                       config.markAsync.functionIndex).node

\* C16: a new driver that is given what getConfiguration(seed) returned finds the same
\* seed and the same ignored nodes (by path, line, type and index on the line), and
\* its map serializes to the text of the first driver's map.
ConfigurationRoundTrip ==
  (Analyzed /\ adjustments = NoAdjustments) =>
    /\ stage = "done"
    /\ serializeNode(StartAsync) = original.startAsync
    /\ {serializeNode(n) : n \in ignoredNodes} = original.ignored
    /\ serialize = original.serialized

\* -------------------------------------------------------------------- C19
NamedBy(ignore) ==
  {nodeByLineFilterIndex(ignore[k].path, ignore[k].line, ignore[k].index,
                         {ignore[k].type}).node : k \in 1..Len(ignore)}
NamesNode(newIgnore) ==
  LET r == nodeByLineFilterIndex(newIgnore.path, newIgnore.line, newIgnore.index,
                                 {newIgnore.type})
  IN ~r.threw /\ r.node # Null

\* C19: the configuration subcommand calls analyzeByConfiguration with
\* { newIgnore: args.ignore }.  Without --ignore the call gets as far as
\* getAsyncStacks with exactly the nodes of the configuration's ignore list marked;
\* with --ignore naming a node, that node is marked as well and its description is
\* the last entry of the configuration's ignore list.
IgnoreArgumentOptional ==
  ("newIgnore" \in DOMAIN adjustments /\ (Analyzed \/ stage = "marked")) =>
    IF adjustments.newIgnore = NotGiven
      THEN /\ stage \in {"marked", "done"}
           /\ ignoredNodes = NamedBy(original.config.ignore)
    ELSE NamesNode(adjustments.newIgnore) =>
           /\ ignoredNodes = NamedBy(original.config.ignore) \cup
                               NamedBy(<<adjustments.newIgnore>>)
           /\ config.ignore = Append(original.config.ignore, adjustments.newIgnore)

\* -------------------------------------------------------------------- C21
\* What an edge of the await node is to carry as its asyncNode.
ExpectedCaller(awaitNode) ==
  LET f == NearestFunctionAbove(awaitNode)
  IN IF f = Undefined \/ IsIgnored(f) THEN Undefined
     ELSE IF Nodes[f].async THEN Null
     ELSE f

\* C21: in the returned map, an edge whose await node has no function around it, or
\* whose nearest function is ignored, carries no asyncNode; when the nearest function
\* is declared async the asyncNode is null; otherwise it is that function.
EdgesNameNearestFunction ==
  Returned =>
    \A key \in FunctionKeys : \A edge \in EdgesUnder(key) :
      edge.asyncNode = ExpectedCaller(edge.awaitNode)

\* -------------------------------------------------------------------- C22
\* C22: once parseSources has returned, no step of a getAsyncStacks call changes
\* callsByName or referencesByName: every name keeps the nodes indexed at parse time,
\* in their order.
IndexesKeptByGetAsyncStacks ==
  [][(phase \in {"ready", "running"} /\ phase' \in {"ready", "running"}) =>
       (callsByName' = callsByName /\ referencesByName' = referencesByName)]_vars

\* -------------------------------------------------------------------- C23
\* The scope that lexically encloses a node, as a function-like node opens one: the
\* scope of the nearest function above it, or the scope of the program.
EnclosingFunctionScope(node) ==
  LET f == NearestFunctionAbove(node)
  IN IF f = Undefined THEN 1 ELSE Acquire(f)
\* C23: the scope recorded for every node entered in the first traversal is the scope
\* of its nearest enclosing function-like node, or the program scope; leaving a
\* function puts the cursor back to what it was before the function was entered, also
\* for a function nested in a block.
ScopeCursorFollowsStack ==
  \A node \in DOMAIN nodeToScope : nodeToScope[node] = EnclosingFunctionScope(node)

\* -------------------------------------------------------------------- C24
\* parseSources has returned.
Indexed == phase \in {"ready", "running"}
\* The statement for every node, function-like nodes included: an entry for the nearest
\* function-like proper ancestor exactly when there is one, and an empty function stack.
EnclosingFunctionOfEveryNode ==
  Indexed =>
    /\ functionStack = <<>>
    /\ \A node \in NodeIds :
         IF NearestFunctionAbove(node) = Undefined
           THEN node \notin DOMAIN nodeToEnclosingFunction
         ELSE /\ node \in DOMAIN nodeToEnclosingFunction
              /\ nodeToEnclosingFunction[node] = NearestFunctionAbove(node)
\* C24: after parseSources, nodeToEnclosingFunction maps every node that is not itself
\* function-like and has a function-like proper ancestor to the nearest such ancestor;
\* it has no entry for a function-like node, nested or not, nor for a node at top
\* level; and the function stack is empty again.
EnclosingFunctionOfNonFunctions ==
  Indexed =>
    /\ functionStack = <<>>
    /\ \A node \in NodeIds :
         IF isFunctionNode(node) \/ NearestFunctionAbove(node) = Undefined
           THEN node \notin DOMAIN nodeToEnclosingFunction
         ELSE /\ node \in DOMAIN nodeToEnclosingFunction
              /\ nodeToEnclosingFunction[node] = NearestFunctionAbove(node)
\* A function nested two functions deep has been left, with nodes recorded below both
\* functions around it and a node at top level without an entry.
EnclosingFunctionOfNonFunctionsWitness ==
  /\ Indexed
  /\ \E f \in NodeIds :
       /\ isFunctionNode(f)
       /\ NearestFunctionAbove(f) # Undefined
       /\ NearestFunctionAbove(NearestFunctionAbove(f)) # Undefined
       /\ f \notin DOMAIN nodeToEnclosingFunction
       /\ \E inner, outer \in DOMAIN nodeToEnclosingFunction :
            /\ inner > f /\ nodeToEnclosingFunction[inner] = f
            /\ outer > inner /\ nodeToEnclosingFunction[outer] = NearestFunctionAbove(f)
       /\ \E top \in NodeIds \ DOMAIN nodeToEnclosingFunction :
            ~isFunctionNode(top) /\ NearestFunctionAbove(top) = Undefined

\* -------------------------------------------------------------------- C25
RECURSIVE AwaitsAbove(_)
\* The number of AwaitExpression nodes among the proper ancestors of the node.
AwaitsAbove(node) ==
  LET parent == Nodes[node].parent
  IN IF parent = Null THEN 0
     ELSE AwaitsAbove(parent) + (IF Nodes[parent].type = "AwaitExpression" THEN 1 ELSE 0)
\* C25: after parseSources the await-depth counter is 0 again, and nodesInAwaitCall
\* holds exactly the nodes that are no AwaitExpression themselves and have at least one
\* AwaitExpression among their proper ancestors.
NodesInAwaitCallExact ==
  Indexed =>
    /\ awaitCount = 0
    /\ nodesInAwaitCall =
         {node \in NodeIds : Nodes[node].type # "AwaitExpression" /\ AwaitsAbove(node) > 0}
\* An await expression inside another has been left: the nodes below both are in the
\* set, the inner await expression is not, nor is a node that follows the outer one.
NodesInAwaitCallExactWitness ==
  /\ Indexed
  /\ \E inner \in NodeIds :
       /\ Nodes[inner].type = "AwaitExpression" /\ AwaitsAbove(inner) = 1
       /\ inner \notin nodesInAwaitCall
       /\ \E below \in nodesInAwaitCall : AwaitsAbove(below) = 2
       /\ \E after \in NodeIds \ nodesInAwaitCall :
            after > inner /\ Nodes[after].type = "CallExpression"

\* -------------------------------------------------------------------- C26
\* C26: after parseSources, constructorFunctions holds only function-like nodes, and
\* holds every function that the callee of a new expression resolves to through the
\* scope chain, whether the function is a declaration or a function expression bound
\* to a variable; isAsyncSyntaxError is true of every such function.
ConstructorsAreFunctions ==
  Indexed =>
    /\ \A c \in constructorFunctions : isFunctionNode(c)
    /\ \A F \in NodeIds :
         (isFunctionNode(F) /\ IsInstantiated(F)) =>
           (F \in constructorFunctions /\ isAsyncSyntaxError(F))

\* -------------------------------------------------------------------- C27
\* The paths of the fragments in the buffer, in the order they were appended.
AppendedPaths == [k \in 1..Len(lineMapping) |-> lineMapping[k].pathToFile]
\* C27: when every read that analyzeByConfiguration started has completed, the buffer
\* holds the scripts in the order of config.scripts, each path once, in whatever order
\* the reads completed.
ScriptsAppendedInConfigOrder ==
  (stage # "original" /\ ReadsInFlight = 0) => AppendedPaths = config.scripts

\* ------------------------------------------- HTMLParseDriver, the sources of a page
\* The events a page of at most MaxElements elements gives ScriptExtractor's listeners,
\* in document order: the event of the k-th element is located on line k + 1.
MaxElements == 3
PagePaths == {<<"page.html">>, <<"b", Sep, "page.html">>}
Hrefs == {<<"..">>, <<"..", Sep, "..">>}
Srcs == {<<"a.js">>, <<"..", Sep, "a.js">>, <<"..", Sep, "b.js">>}
Elements ==
  {[kind |-> "baseHref", name |-> "", line |-> 0, text |-> href] : href \in Hrefs} \cup
  {[kind |-> "loadscript", name |-> "", line |-> 0, text |-> src] : src \in Srcs} \cup
  {[kind |-> "inlinescript", name |-> "", line |-> 0, text |-> <<"x()", NL, "y()">>],
   [kind |-> "eventhandler", name |-> "onclick", line |-> 0, text |-> <<"f()">>]}
Located(elements) == [k \in DOMAIN elements |-> [elements[k] EXCEPT !.line = k + 1]]
Documents ==
  {Located(elements) : elements \in UNION {[1..n -> Elements] : n \in 0..MaxElements}}

\* this.pathToHTML.replace(/\/[^/]*$/, "/")
RECURSIVE ReplaceFileName(_, _)
ReplaceFileName(pathToHTML, k) ==
  IF k = 0 THEN pathToHTML
  ELSE IF pathToHTML[k] = Sep THEN SubSeq(pathToHTML, 1, k)
  ELSE ReplaceFileName(pathToHTML, k - 1)

\* getScriptCallbacks: the three queues, and the listeners that fill them.  A callback
\* is kept as the event it was made for.
NoCallbacks ==
  [baseHrefHandling |-> <<>>, loadScriptCallbacks |-> <<>>, eventHandlerCallbacks |-> <<>>,
   baseUpdated |-> FALSE, error |-> ""]
onBaseHref(q, event) ==
  IF q.baseUpdated THEN [q EXCEPT !.error = "Error: Why set base href twice?"]
  ELSE [q EXCEPT !.baseUpdated = TRUE, !.baseHrefHandling = <<event>> \o @]
onInlineScript(q, event) == [q EXCEPT !.loadScriptCallbacks = Append(@, event)]
onLoadScript(q, event) == [q EXCEPT !.loadScriptCallbacks = Append(@, event)]
onEventHandler(q, event) == [q EXCEPT !.eventHandlerCallbacks = Append(@, event)]
emit(q, event) ==
  IF event.kind = "baseHref" THEN onBaseHref(q, event)
  ELSE IF event.kind = "inlinescript" THEN onInlineScript(q, event)
  ELSE IF event.kind = "loadscript" THEN onLoadScript(q, event)
  ELSE onEventHandler(q, event)
\* scriptExtractor.parseHTML(source): the events of the page, until a listener throws.
RECURSIVE parseHTML(_, _, _)
parseHTML(q, document, k) ==
  IF k > Len(document) \/ q.error # "" THEN q
  ELSE parseHTML(emit(q, document[k]), document, k + 1)
\* the result of getScriptCallbacks, after Array.prototype.flat
flatEventsFirst(q) == q.eventHandlerCallbacks \o q.baseHrefHandling \o q.loadScriptCallbacks
flat(q) == q.baseHrefHandling \o q.loadScriptCallbacks \o q.eventHandlerCallbacks

\* The fragment an inline script is appended as, and the three of an event handler.
InlineFragment(pathToHTML, event) ==
  [pathToFile |-> pathToHTML, firstLineInFile |-> event.line, source |-> event.text]
HandlerFragments(pathToHTML, event) ==
  << [pathToFile |-> <<"(event handler)">>, firstLineInFile |-> 0,
      source |-> <<"void(function(event) {">>],
     [pathToFile |-> pathToHTML \o <<":", event.name>>, firstLineInFile |-> event.line,
      source |-> event.text],
     [pathToFile |-> <<"(event handler)">>, firstLineInFile |-> 0, source |-> <<"});">>] >>
\* appendSource of the fragments, one after the other
RECURSIVE AppendAll(_, _, _)
AppendAll(buffer, mapping, fragments) ==
  IF fragments = <<>> THEN [parsingBuffer |-> buffer, lineMapping |-> mapping]
  ELSE LET r == AppendSource(buffer, mapping, fragments[1].pathToFile,
                             fragments[1].firstLineInFile, fragments[1].source)
       IN AppendAll(r.parsingBuffer, r.lineMapping, Tail(fragments))
AppendFragments(fragments) ==
  LET r == AppendAll(parsingBuffer, lineMapping, fragments)
  IN /\ parsingBuffer' = r.parsingBuffer
     /\ lineMapping' = r.lineMapping
     /\ appended' = appended \o [k \in 1..Len(fragments) |-> fragments[k].source]

\* appendSourcesViaHTML(pathToHTML) of a new driver, up to the await of the page's
\* text (document is what the page holds).
appendSourcesViaHTML(pathToHTML, document) ==
  IF ~startsWith(pathResolve(<<FullRoot, pathToHTML>>), FullRoot)
    THEN [op |-> "appendSourcesViaHTML", pathToHTML |-> <<>>, document |-> document,
          baseHref |-> <<>>, scriptCallbacks |-> <<>>, i |-> 0, state |-> "rejected",
          error |-> "Error: HTML file lives outside project root directory", again |-> 0]
  ELSE [op |-> "appendSourcesViaHTML", pathToHTML |-> pathToHTML, document |-> document,
        baseHref |-> ReplaceFileName(pathToHTML, Len(pathToHTML)),
        scriptCallbacks |-> <<>>, i |-> 0, state |-> "readFile", error |-> "",
        again |-> 0]
AppendSourcesViaHTMLCall(pathToHTML, document) ==
  /\ called.op = "none"
  /\ called' = appendSourcesViaHTML(pathToHTML, document)
  /\ UNCHANGED <<prog, htmlVars, configVars, bufVars, mainVars>>

\* A further call on the driver is rejected, whatever the first one has come to.
AppendSourcesViaHTMLAgain ==
  /\ called.op = "appendSourcesViaHTML"
  /\ called.pathToHTML # <<>>
  /\ called.again = 0
  /\ called' = [called EXCEPT !.again = 1]
  /\ UNCHANGED <<prog, htmlVars, configVars, bufVars, mainVars>>

\* The page's text is read: parseHTML fills the queues, and the loop starts.
PageRead ==
  /\ called.op = "appendSourcesViaHTML"
  /\ called.state = "readFile"
  /\ LET q == parseHTML(NoCallbacks, called.document, 1)
     IN called' =
          IF q.error # "" THEN [called EXCEPT !.state = "rejected", !.error = q.error]
          ELSE [called EXCEPT !.scriptCallbacks = flat(q), !.i = 1,
                              !.state = IF flat(q) = <<>> THEN "resolved" ELSE "loop"]
  /\ UNCHANGED <<prog, htmlVars, configVars, bufVars, mainVars>>

\* The state of the loop after callback i has completed.
Completed(c) ==
  [c EXCEPT !.i = @ + 1,
            !.state = IF c.i = Len(c.scriptCallbacks) THEN "resolved" ELSE "loop"]
Rejected(c, error) == [c EXCEPT !.state = "rejected", !.error = error]

\* await scriptCallbacks[i](), up to the await in the callback if it has one.
ScriptCallback ==
  /\ called.op = "appendSourcesViaHTML"
  /\ called.state = "loop"
  /\ LET callback == called.scriptCallbacks[called.i]
         uri == resolveURI(called.baseHref, callback.text)
     IN IF callback.kind = "baseHref"
          THEN /\ called' =
                    IF uri = outside
                      THEN Rejected([called EXCEPT !.baseHref = uri],
                                    "Error: baseHref lives outside project root directory")
                    ELSE Completed([called EXCEPT !.baseHref = uri])
               /\ UNCHANGED bufVars
        ELSE IF callback.kind = "inlinescript"
          THEN /\ AppendFragments(<<InlineFragment(called.pathToHTML, callback)>>)
               /\ called' = Completed(called)
               /\ UNCHANGED <<sources, reading, outcome>>
        ELSE IF callback.kind = "eventhandler"
          THEN /\ AppendFragments(HandlerFragments(called.pathToHTML, callback))
               /\ called' = Completed(called)
               /\ UNCHANGED <<sources, reading, outcome>>
        ELSE /\ called' =
                  IF uri = outside
                    THEN Rejected(called, "Error: src lives outside project root directory")
                  ELSE IF uri \in sources
                    THEN Rejected(called, "TypeError: this.sources.get is not a function")
                  ELSE [called EXCEPT !.state = "appendJSFile"]
             /\ UNCHANGED bufVars
  /\ UNCHANGED <<prog, htmlVars, configVars, mainVars>>

\* fs.readFile of appendJSFile settles: the file is appended and registered, or the
\* callback is rejected for a path that is no file.
ScriptRead ==
  /\ called.op = "appendSourcesViaHTML"
  /\ called.state = "appendJSFile"
  /\ LET uri == resolveURI(called.baseHref, called.scriptCallbacks[called.i].text)
         fullPath == pathResolve(<<RootDir, uri>>)
     IN IF fullPath \in DOMAIN Disk
          THEN /\ AppendFragments(<<[pathToFile |-> uri, firstLineInFile |-> 1,
                                     source |-> Disk[fullPath]]>>)
               /\ sources' = sources \cup {uri}
               /\ called' = Completed(called)
          ELSE /\ called' = Rejected(called,
                                     ReadError(fullPath,
                                       DOMAIN Disk \cup
                                         {pathResolve(<<FullRoot, called.pathToHTML>>)}))
               /\ UNCHANGED <<sources, parsingBuffer, lineMapping, appended>>
  /\ UNCHANGED <<prog, htmlVars, configVars, reading, outcome, mainVars>>

\* ------------------------------- HTMLParseDriver.analyzeByConfiguration

\* The configurations: the seed is named by a line of the page or of the event
\* handlers' wrapper, and at most one call of line 3 is ignored.
HTMLIgnores(pathToHTML) ==
  {<<>>} \cup
    {<<[path |-> pathToHTML, line |-> 3, type |-> "CallExpression", index |-> index]>> :
       index \in 0..MaxIndex}
HTMLConfigsOf(pathToHTML) ==
  {[type |-> "html", pathToHTML |-> pathToHTML, ignore |-> ignore,
    markAsync |-> [path |-> seedPath, line |-> line, functionIndex |-> 0]] :
     ignore \in HTMLIgnores(pathToHTML),
     seedPath \in {pathToHTML, <<"(event handler)">>}, line \in {0, 2, 5}}
HTMLConfigs == UNION {HTMLConfigsOf(pathToHTML) : pathToHTML \in DOMAIN Pages}
HTMLAdjustments ==
  {NoAdjustments, [newIgnore |-> NotGiven]} \cup
    {[newIgnore |-> [path |-> pathToHTML, line |-> line, type |-> "CallExpression",
                     index |-> 0]] : pathToHTML \in DOMAIN Pages, line \in {3, 5}}

\* analyzeByConfiguration(config, adjustments) of a new driver, up to the await of
\* the page's text inside appendSourcesViaHTML(config.pathToHTML).
HTMLAnalyzeByConfigurationCall(configuration, adj) ==
  /\ called.op = "none"
  /\ stage = "original"
  /\ called' = appendSourcesViaHTML(configuration.pathToHTML,
                                     Pages[configuration.pathToHTML])
  /\ config' = configuration
  /\ adjustments' = adj
  /\ stage' = "configured"
  /\ UNCHANGED <<prog, htmlVars, original, bufVars, mainVars>>

\* appendSourcesViaHTML was rejected: analyzeByConfiguration is rejected with its error.
HTMLAnalysisRejected ==
  /\ stage = "configured"
  /\ called.op = "appendSourcesViaHTML"
  /\ called.state = "rejected"
  /\ stage' = IF called.error = "TypeError: this.sources.get is not a function"
                THEN "TypeError" ELSE "Error"
  /\ UNCHANGED <<prog, htmlVars, called, config, adjustments, original, bufVars, mainVars>>

\* this.parseSources() of what the page appended, for the pages whose scripts have
\* a table.
ParsePageSources ==
  /\ called.op = "appendSourcesViaHTML"
  /\ called.state = "resolved"
  /\ \E q \in PageProgIds :
       /\ Programs[q].fragments = BufferFragments
       /\ prog' = q
       /\ ParseSourcesOf(q)

\* analyzeByConfiguration after parseSources, up to the loop of getAsyncStacks.  The
\* nodes of config.ignore are marked; the lookup of adjustments.newIgnore is given
\* the index as its filter, so it throws for every newIgnore: for a line without
\* nodes as the lookup does, else as Array.prototype.filter does.  A seed of null is
\* given to getAsyncStacks, which returns the map of the root alone when null was
\* marked as ignored and throws in getNodeName when not.
ApplyHTMLConfiguration ==
  /\ stage = "configured"
  /\ called.op = "appendSourcesViaHTML"
  /\ phase = "ready"
  /\ LET marked == MarkConfigured(config.ignore, ignoredNodes)
         named == "newIgnore" \in DOMAIN adjustments
         newIgnore == adjustments.newIgnore
         startAsync == functionNodeFromLine(config.markAsync.path, config.markAsync.line,
                                            config.markAsync.functionIndex)
         seedless == ~startAsync.threw /\ startAsync.node = Null
         root == [keys |-> <<Null>>,
                  refs |-> (Null :> <<[awaitNode |-> Undefined, asyncNode |-> Null]>>)]
     IN /\ ignoredNodes' = marked.ignoredNodes
        /\ IF marked.threw
             THEN /\ stage' = "Error"
                  /\ UNCHANGED <<asyncReferences, results>>
           ELSE IF named
             THEN /\ stage' = IF newIgnore = NotGiven THEN "TypeError"
                              ELSE IF <<newIgnore.path, newIgnore.line>> \notin DOMAIN nodesByLine
                                THEN "Error"
                              ELSE "TypeError"
                  /\ UNCHANGED <<asyncReferences, results>>
           ELSE IF seedless /\ Null \in marked.ignoredNodes
             THEN /\ stage' = "done"
                  /\ asyncReferences' = root
                  /\ results' = Append(results, [functionNode |-> Null, threw |-> FALSE,
                                                 asyncReferences |-> root])
           ELSE /\ stage' = IF startAsync.threw THEN "Error"
                            ELSE IF seedless THEN "TypeError"
                            ELSE "marked"
                /\ UNCHANGED <<asyncReferences, results>>
  /\ UNCHANGED <<prog, htmlVars, called, config, adjustments, original, bufVars, parseVars,
                 functionNode, markedAsyncNodes, scheduledAsyncNodes, i, awaitNodesCalls>>

\* driver.getAsyncStacks(node) of a driver whose page was appended and parsed by hand.
PageGetAsyncStacks(node) ==
  /\ stage = "original"
  /\ GetAsyncStacks(node)

NextViaHTML ==
  \/ \E pathToHTML \in PagePaths, document \in Documents :
       AppendSourcesViaHTMLCall(pathToHTML, document)
  \/ AppendSourcesViaHTMLAgain
  \/ PageRead
  \/ ScriptCallback
  \/ ScriptRead
  \/ \E configuration \in HTMLConfigs, adj \in HTMLAdjustments :
       HTMLAnalyzeByConfigurationCall(configuration, adj)
  \/ HTMLAnalysisRejected
  \/ ParsePageSources
  \/ Pass1Enter
  \/ Pass1Leave
  \/ Pass2Enter
  \/ Pass2Leave
  \/ ApplyHTMLConfiguration
  \/ \E node \in NodeIds : PageGetAsyncStacks(node)
  \/ ConfiguredGetAsyncStacks
  \/ GetAsyncStacksLoop
  \/ GetAsyncStacksReturn
  \/ AnalyzeByConfigurationReturn

SpecViaHTML == InitBuf /\ [][NextViaHTML]_vars

\* -------------------------------------------------------------------- C28
IsPrefix(s, t) == Len(s) <= Len(t) /\ SubSeq(t, 1, Len(s)) = s
KindsOf(document, kinds) == SelectSeq(document, LAMBDA event : event.kind \in kinds)
\* The base that the scripts of the page are resolved against.
BaseOf(pathToHTML, document) ==
  LET bases == KindsOf(document, {"baseHref"})
      directory == ReplaceFileName(pathToHTML, Len(pathToHTML))
  IN IF bases = <<>> THEN directory ELSE resolveURI(directory, bases[1].text)
\* The fragments of the scripts of the page and then of its event handlers, each kind
\* in document order.
RECURSIVE FragmentsInOrder(_, _, _)
FragmentsInOrder(pathToHTML, baseHref, events) ==
  IF events = <<>> THEN <<>>
  ELSE LET event == events[1]
           uri == resolveURI(baseHref, event.text)
           fullPath == pathResolve(<<RootDir, uri>>)
           fragments ==
             IF event.kind = "inlinescript" THEN <<InlineFragment(pathToHTML, event)>>
             ELSE IF event.kind = "eventhandler" THEN HandlerFragments(pathToHTML, event)
             ELSE <<[pathToFile |-> uri, firstLineInFile |-> 1,
                     source |-> IF fullPath \in DOMAIN Disk THEN Disk[fullPath] ELSE <<>>]>>
       IN fragments \o FragmentsInOrder(pathToHTML, baseHref, Tail(events))
PageFragments(pathToHTML, document) ==
  FragmentsInOrder(pathToHTML, BaseOf(pathToHTML, document),
                   KindsOf(document, {"inlinescript", "loadscript"}) \o
                     KindsOf(document, {"eventhandler"}))
\* C28: whatever the order of the elements in the page, appendSourcesViaHTML appends
\* the fragments in one order: with the base href resolved first, the external and
\* inline scripts in document order, then the event handlers in document order, each
\* as prefix, attribute value and suffix next to each other.  At any moment the buffer
\* holds a beginning of that list, and all of it once the call has resolved; while a
\* script file is being read no later callback has appended anything.
ViaHTMLAppendsInFixedOrder ==
  called.op = "appendSourcesViaHTML" =>
    LET expected == PageFragments(called.pathToHTML, called.document)
        scripts == KindsOf(called.document, {"inlinescript", "loadscript"})
    IN /\ IsPrefix(BufferFragments, expected)
       /\ called.state = "resolved" => BufferFragments = expected
       /\ called.state = "appendJSFile" =>
            BufferFragments =
              FragmentsInOrder(called.pathToHTML, called.baseHref,
                               SubSeq(scripts, 1, called.i - 1
                                        - Len(KindsOf(called.document, {"baseHref"}))))
\* The call has resolved for a page whose event handler comes first, whose script
\* comes second and whose base comes last: the script's file, found by way of the
\* base, is in front of the three fragments of the handler.
ViaHTMLAppendsInFixedOrderWitness ==
  /\ called.op = "appendSourcesViaHTML"
  /\ called.state = "resolved"
  /\ Len(called.document) = 3
  /\ called.document[1].kind = "eventhandler"
  /\ called.document[2].kind = "loadscript"
  /\ called.document[3].kind = "baseHref"
  /\ Len(lineMapping) = 4
  /\ lineMapping[1].pathToFile = <<"a.js">>
  /\ lineMapping[3].pathToFile = called.pathToHTML \o <<":", "onclick">>

\* -------------------------------------------------------------------- C29
\* getAsyncStacks runs to its end once called: the loop and the return are steps of
\* one synchronous call.
SpecTerminating ==
  Init /\ [][Next]_vars /\ WF_vars(GetAsyncStacksLoop) /\ WF_vars(GetAsyncStacksReturn)
\* No node is on the worklist twice.
ScheduledOnce == Cardinality(Range(markedAsyncNodes)) = Len(markedAsyncNodes)
\* A step of a running call leaves every key of the map with the references it has.
KeysAssignedOnce ==
  (phase = "running" /\ phase' = "running") =>
    \A key \in Range(asyncReferences.keys) :
      /\ key \in Range(asyncReferences'.keys)
      /\ asyncReferences'.refs[key] = asyncReferences.refs[key]
\* C29: every call of getAsyncStacks comes to its end, for recursive and mutually
\* recursive functions too; no function is added to the worklist twice and no key of
\* the map is assigned twice.
GetAsyncStacksTerminates ==
  /\ []ScheduledOnce
  /\ [][KeysAssignedOnce]_vars
  /\ (phase = "running") ~> (phase = "ready")
\* A call has returned for a seed that calls itself and is called by a function that
\* is called back in turn: the seed and both callers are on the worklist, once each.
GetAsyncStacksTerminatesWitness ==
  /\ Returned
  /\ Len(markedAsyncNodes) >= 3
  /\ ScheduledOnce
  /\ \E e \in EdgesUnder(functionNode) : e.asyncNode = functionNode
  /\ \E f, g \in FunctionKeys \ {functionNode} :
       /\ f # g
       /\ \E e \in EdgesUnder(f) : e.asyncNode = g
       /\ \E e \in EdgesUnder(g) : e.asyncNode = f

\* ---------------------------------------- MarkdownSerializer of serializers/html.js
\* An entry of the map is named by its key and its place in the key's array.
\* appendNodes(indent, key), up to its second loop: the entries of the key that are
\* not scheduled yet are scheduled and become the children to serialize.
appendNodesUnfiltered(serializer, key) ==
  LET childData == asyncReferences.refs[key]
  IN [serializer EXCEPT
        !.scheduledNodes = @ \cup {<<key, k>> : k \in 1..Len(childData)},
        !.stack = Append(@, [key |-> key, at |-> 1,
                             children |-> [k \in 1..Len(childData) |-> k]])]
appendNodesCall(serializer, key) ==
  LET childData == asyncReferences.refs[key]
      children == SelectSeq([k \in 1..Len(childData) |-> k],
                            LAMBDA k : <<key, k>> \notin serializer.scheduledNodes)
  IN [serializer EXCEPT
        !.scheduledNodes = @ \cup {<<key, children[j]>> : j \in 1..Len(children)},
        !.stack = Append(@, [key |-> key, children |-> children, at |-> 1])]

\* new MarkdownSerializer(root, asyncRefs, driver, {nested: true}).serialize(), for the
\* map that getAsyncStacks has just returned, up to the first child.
SerializeCall ==
  /\ called.op = "none"
  /\ Returned
  /\ called' = appendNodesCall([op |-> "serialize", state |-> "appendNodes", stack |-> <<>>,
                                scheduledNodes |-> {}, asyncSyntaxErrors |-> <<>>,
                                text |-> <<>>], Null)
  /\ UNCHANGED <<prog, htmlVars, configVars, bufVars, mainVars>>

\* serializeChildData(indent, children[i]): the line of the entry, and appendNodes of
\* its asyncNode when that is a key of the map.  getNodeName may throw.
SerializeChild ==
  /\ called.op = "serialize"
  /\ called.state = "appendNodes"
  /\ LET frame == called.stack[Len(called.stack)]
     IN /\ frame.at <= Len(frame.children)
        /\ LET childData == asyncReferences.refs[frame.key][frame.children[frame.at]]
               awaitNode == childData.awaitNode
               asyncNode == childData.asyncNode
               asyncName == IF IsNode(asyncNode) THEN getNodeName(asyncNode)
                            ELSE IF IsNode(awaitNode) THEN getNodeName(awaitNode)
                            ELSE ""
               line == [indent |-> Len(called.stack) - 1,
                        entry |-> <<frame.key, frame.children[frame.at]>>,
                        asyncName |-> asyncName,
                        await |-> IF IsNode(awaitNode) THEN <<serializeNode(awaitNode)>>
                                  ELSE <<>>,
                        async |-> IF IsNode(asyncNode) THEN <<serializeNode(asyncNode)>>
                                  ELSE <<>>]
               written == [called EXCEPT
                             !.text = Append(@, line),
                             !.stack[Len(called.stack)].at = @ + 1,
                             !.asyncSyntaxErrors =
                                IF IsNode(asyncNode) /\ isAsyncSyntaxError(asyncNode)
                                     /\ ~Has(@, asyncNode)
                                  THEN Append(@, asyncNode) ELSE @]
           IN called' =
                IF IsThrown(asyncName) THEN [called EXCEPT !.state = ThrownBy(asyncName).error]
                ELSE IF IsNode(asyncNode) /\ asyncNode \in DOMAIN asyncReferences.refs
                  THEN appendNodesCall(written, asyncNode)
                ELSE written
  /\ UNCHANGED <<prog, htmlVars, configVars, bufVars, mainVars>>

\* The second loop of appendNodes is over: the call returns to the entry it was made
\* for, or serialize goes on with appendIgnoredNodes and appendAsyncSyntaxErrors.
SerializeReturn ==
  /\ called.op = "serialize"
  /\ called.state = "appendNodes"
  /\ LET frame == called.stack[Len(called.stack)]
     IN /\ frame.at > Len(frame.children)
        /\ called' =
             IF Len(called.stack) > 1
               THEN [called EXCEPT !.stack = SubSeq(@, 1, Len(@) - 1)]
             ELSE [called EXCEPT
                     !.stack = <<>>,
                     !.state = IF Has(IgnoredList, Null) THEN TypeError.error ELSE "returned",
                     !.text = @ \o appendIgnoredNodes \o
                                [k \in 1..Len(called.asyncSyntaxErrors) |->
                                   [syntaxError |-> serializeNode(called.asyncSyntaxErrors[k])]]]
  /\ UNCHANGED <<prog, htmlVars, configVars, bufVars, mainVars>>

\* The driver's calls, and the serializer at work on a returned map.  serialize is one
\* synchronous call: nothing else runs before it is over.
NextSerializing ==
  \/ called.op = "none" /\ Next
  \/ SerializeCall
  \/ SerializeChild
  \/ SerializeReturn

SpecSerializing ==
  Init /\ [][NextSerializing]_vars /\ WF_vars(SerializeChild) /\ WF_vars(SerializeReturn)

\* -------------------------------------------------------------------- C30
\* The entries of the map that the lines written so far are for, in their order.
WrittenEntries ==
  SelectSeq([k \in 1..Len(called.text) |->
               IF "entry" \in DOMAIN called.text[k] THEN called.text[k].entry ELSE <<>>],
            LAMBDA entry : entry # <<>>)
EachEntryOnce ==
  called.op = "serialize" => Cardinality(Range(WrittenEntries)) = Len(WrittenEntries)
\* C30: serialize() comes to its end for every map that getAsyncStacks returns, maps
\* with cycles included, and writes no entry of the map twice.
SerializeTerminates ==
  /\ []EachEntryOnce
  /\ (called.op = "serialize") ~>
       (called.op = "serialize" /\ called.state \in {"returned", "Error", "TypeError"})
\* serialize() has returned for a map with a function that calls itself and two
\* functions that call each other: the entries of all three keys are written.
SerializeTerminatesWitness ==
  /\ called.op = "serialize"
  /\ called.state = "returned"
  /\ functionNode \in FunctionKeys
  /\ \E e \in EdgesUnder(functionNode) : e.asyncNode = functionNode
  /\ \E f, g \in FunctionKeys \ {functionNode} :
       /\ f # g
       /\ \E e \in EdgesUnder(f) : e.asyncNode = g
       /\ \E e \in EdgesUnder(g) : e.asyncNode = f
  /\ \A key \in FunctionKeys : \A k \in 1..Len(asyncReferences.refs[key]) :
       <<key, k>> \in Range(WrittenEntries)

====
